---------------------------- MODULE Spec2Model ----------------------------
(***************************************************************************)
(* A model of gsl-sounding-parser (src/src/mod.ts): parse() turns a GSD     *)
(* formatted text into sounding reports.                                   *)
(*                                                                         *)
(* A JavaScript string is modelled as a sequence of one-character strings, *)
(* so that trimming, splitting and number parsing are computed character   *)
(* by character as the library functions compute them.                     *)
(*   a Number                [nan, inf, neg, digits, exp]: the double     *)
(*                           that prints as digits * 10^exp               *)
(*   number | undefined      [ok |-> BOOLEAN, v |-> a Number]              *)
(* A function of the source that computes a value step by step is written  *)
(* as a chain of operators, each passing what it computed to the next.     *)
(***************************************************************************)
EXTENDS Integers, Sequences, FiniteSets, TLC

(***************************************************************************)
(* Characters and JavaScript string primitives                             *)
(*                                                                         *)
(* A character is the string of that one character where TLA+ can write   *)
(* it: U+0020 to U+00FF but for the backquote, U+007F and U+0080 to       *)
(* U+009F, the quote and the backslash as "\"" and "\\", and "\t", "\n",   *)
(* "\f", "\r".  Every other character is the string of its code point,     *)
(* "U+" and at least four hexadecimal digits, as "U+000B" and "U+2028".    *)
(***************************************************************************)
\* WhiteSpace and LineTerminator of ECMAScript: what \s matches and what
\* trim, parseInt and parseFloat skip.  The seventh is the no-break space
\* U+00A0.
WhiteSpace ==
    {"\t", "\n", "U+000B", "\f", "\r", " ", " ", "U+1680",
     "U+2000", "U+2001", "U+2002", "U+2003", "U+2004", "U+2005", "U+2006",
     "U+2007", "U+2008", "U+2009", "U+200A", "U+2028", "U+2029", "U+202F",
     "U+205F", "U+3000", "U+FEFF"}

DigitChars == <<"0", "1", "2", "3", "4", "5", "6", "7", "8", "9">>

IsDigit(c) == \E i \in 1..10 : DigitChars[i] = c

DigitVal(c) == (CHOOSE i \in 1..10 : DigitChars[i] = c) - 1

HexLower == <<"a", "b", "c", "d", "e", "f">>

HexUpper == <<"A", "B", "C", "D", "E", "F">>

IsHexDigit(c) ==
    \/ IsDigit(c)
    \/ \E i \in 1..6 : HexLower[i] = c \/ HexUpper[i] = c

HexVal(c) ==
    IF IsDigit(c) THEN DigitVal(c)
    ELSE 9 + (CHOOSE i \in 1..6 : HexLower[i] = c \/ HexUpper[i] = c)

Drop(s, n) == SubSeq(s, n + 1, Len(s))

Take(s, n) == SubSeq(s, 1, n)

Indices(s) == [i \in 1..Len(s) |-> i]

\* the sequences of ss one after the other
RECURSIVE Concat(_)
Concat(ss) ==
    IF ss = <<>> THEN <<>>
    ELSE IF Len(ss) = 1 THEN ss[1]
    ELSE Concat(Take(ss, Len(ss) \div 2)) \o Concat(Drop(ss, Len(ss) \div 2))

\* the characters with an upper case of their own, each with that upper
\* case (toUppercase of Unicode 17: UnicodeData and SpecialCasing)
UpperCasePairs ==
    <<<<"a", <<"A">>>>, <<"b", <<"B">>>>, <<"c", <<"C">>>>, <<"d", <<"D">>>>,
     <<"e", <<"E">>>>, <<"f", <<"F">>>>, <<"g", <<"G">>>>, <<"h", <<"H">>>>,
     <<"i", <<"I">>>>, <<"j", <<"J">>>>, <<"k", <<"K">>>>, <<"l", <<"L">>>>,
     <<"m", <<"M">>>>, <<"n", <<"N">>>>, <<"o", <<"O">>>>, <<"p", <<"P">>>>,
     <<"q", <<"Q">>>>, <<"r", <<"R">>>>, <<"s", <<"S">>>>, <<"t", <<"T">>>>,
     <<"u", <<"U">>>>, <<"v", <<"V">>>>, <<"w", <<"W">>>>, <<"x", <<"X">>>>,
     <<"y", <<"Y">>>>, <<"z", <<"Z">>>>, <<"µ", <<"U+039C">>>>,
     <<"ß", <<"S", "S">>>>, <<"à", <<"À">>>>, <<"á", <<"Á">>>>,
     <<"â", <<"Â">>>>, <<"ã", <<"Ã">>>>, <<"ä", <<"Ä">>>>, <<"å", <<"Å">>>>,
     <<"æ", <<"Æ">>>>, <<"ç", <<"Ç">>>>, <<"è", <<"È">>>>, <<"é", <<"É">>>>,
     <<"ê", <<"Ê">>>>, <<"ë", <<"Ë">>>>, <<"ì", <<"Ì">>>>, <<"í", <<"Í">>>>,
     <<"î", <<"Î">>>>, <<"ï", <<"Ï">>>>, <<"ð", <<"Ð">>>>, <<"ñ", <<"Ñ">>>>,
     <<"ò", <<"Ò">>>>, <<"ó", <<"Ó">>>>, <<"ô", <<"Ô">>>>, <<"õ", <<"Õ">>>>,
     <<"ö", <<"Ö">>>>, <<"ø", <<"Ø">>>>, <<"ù", <<"Ù">>>>, <<"ú", <<"Ú">>>>,
     <<"û", <<"Û">>>>, <<"ü", <<"Ü">>>>, <<"ý", <<"Ý">>>>, <<"þ", <<"Þ">>>>,
     <<"ÿ", <<"U+0178">>>>, <<"U+0101", <<"U+0100">>>>,
     <<"U+0103", <<"U+0102">>>>, <<"U+0105", <<"U+0104">>>>,
     <<"U+0107", <<"U+0106">>>>, <<"U+0109", <<"U+0108">>>>,
     <<"U+010B", <<"U+010A">>>>, <<"U+010D", <<"U+010C">>>>,
     <<"U+010F", <<"U+010E">>>>, <<"U+0111", <<"U+0110">>>>,
     <<"U+0113", <<"U+0112">>>>, <<"U+0115", <<"U+0114">>>>,
     <<"U+0117", <<"U+0116">>>>, <<"U+0119", <<"U+0118">>>>,
     <<"U+011B", <<"U+011A">>>>, <<"U+011D", <<"U+011C">>>>,
     <<"U+011F", <<"U+011E">>>>, <<"U+0121", <<"U+0120">>>>,
     <<"U+0123", <<"U+0122">>>>, <<"U+0125", <<"U+0124">>>>,
     <<"U+0127", <<"U+0126">>>>, <<"U+0129", <<"U+0128">>>>,
     <<"U+012B", <<"U+012A">>>>, <<"U+012D", <<"U+012C">>>>,
     <<"U+012F", <<"U+012E">>>>, <<"U+0131", <<"I">>>>,
     <<"U+0133", <<"U+0132">>>>, <<"U+0135", <<"U+0134">>>>,
     <<"U+0137", <<"U+0136">>>>, <<"U+013A", <<"U+0139">>>>,
     <<"U+013C", <<"U+013B">>>>, <<"U+013E", <<"U+013D">>>>,
     <<"U+0140", <<"U+013F">>>>, <<"U+0142", <<"U+0141">>>>,
     <<"U+0144", <<"U+0143">>>>, <<"U+0146", <<"U+0145">>>>,
     <<"U+0148", <<"U+0147">>>>, <<"U+0149", <<"U+02BC", "N">>>>,
     <<"U+014B", <<"U+014A">>>>, <<"U+014D", <<"U+014C">>>>,
     <<"U+014F", <<"U+014E">>>>, <<"U+0151", <<"U+0150">>>>,
     <<"U+0153", <<"U+0152">>>>, <<"U+0155", <<"U+0154">>>>,
     <<"U+0157", <<"U+0156">>>>, <<"U+0159", <<"U+0158">>>>,
     <<"U+015B", <<"U+015A">>>>, <<"U+015D", <<"U+015C">>>>,
     <<"U+015F", <<"U+015E">>>>, <<"U+0161", <<"U+0160">>>>,
     <<"U+0163", <<"U+0162">>>>, <<"U+0165", <<"U+0164">>>>,
     <<"U+0167", <<"U+0166">>>>, <<"U+0169", <<"U+0168">>>>,
     <<"U+016B", <<"U+016A">>>>, <<"U+016D", <<"U+016C">>>>,
     <<"U+016F", <<"U+016E">>>>, <<"U+0171", <<"U+0170">>>>,
     <<"U+0173", <<"U+0172">>>>, <<"U+0175", <<"U+0174">>>>,
     <<"U+0177", <<"U+0176">>>>, <<"U+017A", <<"U+0179">>>>,
     <<"U+017C", <<"U+017B">>>>, <<"U+017E", <<"U+017D">>>>,
     <<"U+017F", <<"S">>>>, <<"U+0180", <<"U+0243">>>>,
     <<"U+0183", <<"U+0182">>>>, <<"U+0185", <<"U+0184">>>>,
     <<"U+0188", <<"U+0187">>>>, <<"U+018C", <<"U+018B">>>>,
     <<"U+0192", <<"U+0191">>>>, <<"U+0195", <<"U+01F6">>>>,
     <<"U+0199", <<"U+0198">>>>, <<"U+019A", <<"U+023D">>>>,
     <<"U+019B", <<"U+A7DC">>>>, <<"U+019E", <<"U+0220">>>>,
     <<"U+01A1", <<"U+01A0">>>>, <<"U+01A3", <<"U+01A2">>>>,
     <<"U+01A5", <<"U+01A4">>>>, <<"U+01A8", <<"U+01A7">>>>,
     <<"U+01AD", <<"U+01AC">>>>, <<"U+01B0", <<"U+01AF">>>>,
     <<"U+01B4", <<"U+01B3">>>>, <<"U+01B6", <<"U+01B5">>>>,
     <<"U+01B9", <<"U+01B8">>>>, <<"U+01BD", <<"U+01BC">>>>,
     <<"U+01BF", <<"U+01F7">>>>, <<"U+01C5", <<"U+01C4">>>>,
     <<"U+01C6", <<"U+01C4">>>>, <<"U+01C8", <<"U+01C7">>>>,
     <<"U+01C9", <<"U+01C7">>>>, <<"U+01CB", <<"U+01CA">>>>,
     <<"U+01CC", <<"U+01CA">>>>, <<"U+01CE", <<"U+01CD">>>>,
     <<"U+01D0", <<"U+01CF">>>>, <<"U+01D2", <<"U+01D1">>>>,
     <<"U+01D4", <<"U+01D3">>>>, <<"U+01D6", <<"U+01D5">>>>,
     <<"U+01D8", <<"U+01D7">>>>, <<"U+01DA", <<"U+01D9">>>>,
     <<"U+01DC", <<"U+01DB">>>>, <<"U+01DD", <<"U+018E">>>>,
     <<"U+01DF", <<"U+01DE">>>>, <<"U+01E1", <<"U+01E0">>>>,
     <<"U+01E3", <<"U+01E2">>>>, <<"U+01E5", <<"U+01E4">>>>,
     <<"U+01E7", <<"U+01E6">>>>, <<"U+01E9", <<"U+01E8">>>>,
     <<"U+01EB", <<"U+01EA">>>>, <<"U+01ED", <<"U+01EC">>>>,
     <<"U+01EF", <<"U+01EE">>>>, <<"U+01F0", <<"J", "U+030C">>>>,
     <<"U+01F2", <<"U+01F1">>>>, <<"U+01F3", <<"U+01F1">>>>,
     <<"U+01F5", <<"U+01F4">>>>, <<"U+01F9", <<"U+01F8">>>>,
     <<"U+01FB", <<"U+01FA">>>>, <<"U+01FD", <<"U+01FC">>>>,
     <<"U+01FF", <<"U+01FE">>>>, <<"U+0201", <<"U+0200">>>>,
     <<"U+0203", <<"U+0202">>>>, <<"U+0205", <<"U+0204">>>>,
     <<"U+0207", <<"U+0206">>>>, <<"U+0209", <<"U+0208">>>>,
     <<"U+020B", <<"U+020A">>>>, <<"U+020D", <<"U+020C">>>>,
     <<"U+020F", <<"U+020E">>>>, <<"U+0211", <<"U+0210">>>>,
     <<"U+0213", <<"U+0212">>>>, <<"U+0215", <<"U+0214">>>>,
     <<"U+0217", <<"U+0216">>>>, <<"U+0219", <<"U+0218">>>>,
     <<"U+021B", <<"U+021A">>>>, <<"U+021D", <<"U+021C">>>>,
     <<"U+021F", <<"U+021E">>>>, <<"U+0223", <<"U+0222">>>>,
     <<"U+0225", <<"U+0224">>>>, <<"U+0227", <<"U+0226">>>>,
     <<"U+0229", <<"U+0228">>>>, <<"U+022B", <<"U+022A">>>>,
     <<"U+022D", <<"U+022C">>>>, <<"U+022F", <<"U+022E">>>>,
     <<"U+0231", <<"U+0230">>>>, <<"U+0233", <<"U+0232">>>>,
     <<"U+023C", <<"U+023B">>>>, <<"U+023F", <<"U+2C7E">>>>,
     <<"U+0240", <<"U+2C7F">>>>, <<"U+0242", <<"U+0241">>>>,
     <<"U+0247", <<"U+0246">>>>, <<"U+0249", <<"U+0248">>>>,
     <<"U+024B", <<"U+024A">>>>, <<"U+024D", <<"U+024C">>>>,
     <<"U+024F", <<"U+024E">>>>, <<"U+0250", <<"U+2C6F">>>>,
     <<"U+0251", <<"U+2C6D">>>>, <<"U+0252", <<"U+2C70">>>>,
     <<"U+0253", <<"U+0181">>>>, <<"U+0254", <<"U+0186">>>>,
     <<"U+0256", <<"U+0189">>>>, <<"U+0257", <<"U+018A">>>>,
     <<"U+0259", <<"U+018F">>>>, <<"U+025B", <<"U+0190">>>>,
     <<"U+025C", <<"U+A7AB">>>>, <<"U+0260", <<"U+0193">>>>,
     <<"U+0261", <<"U+A7AC">>>>, <<"U+0263", <<"U+0194">>>>,
     <<"U+0264", <<"U+A7CB">>>>, <<"U+0265", <<"U+A78D">>>>,
     <<"U+0266", <<"U+A7AA">>>>, <<"U+0268", <<"U+0197">>>>,
     <<"U+0269", <<"U+0196">>>>, <<"U+026A", <<"U+A7AE">>>>,
     <<"U+026B", <<"U+2C62">>>>, <<"U+026C", <<"U+A7AD">>>>,
     <<"U+026F", <<"U+019C">>>>, <<"U+0271", <<"U+2C6E">>>>,
     <<"U+0272", <<"U+019D">>>>, <<"U+0275", <<"U+019F">>>>,
     <<"U+027D", <<"U+2C64">>>>, <<"U+0280", <<"U+01A6">>>>,
     <<"U+0282", <<"U+A7C5">>>>, <<"U+0283", <<"U+01A9">>>>,
     <<"U+0287", <<"U+A7B1">>>>, <<"U+0288", <<"U+01AE">>>>,
     <<"U+0289", <<"U+0244">>>>, <<"U+028A", <<"U+01B1">>>>,
     <<"U+028B", <<"U+01B2">>>>, <<"U+028C", <<"U+0245">>>>,
     <<"U+0292", <<"U+01B7">>>>, <<"U+029D", <<"U+A7B2">>>>,
     <<"U+029E", <<"U+A7B0">>>>, <<"U+0345", <<"U+0399">>>>,
     <<"U+0371", <<"U+0370">>>>, <<"U+0373", <<"U+0372">>>>,
     <<"U+0377", <<"U+0376">>>>, <<"U+037B", <<"U+03FD">>>>,
     <<"U+037C", <<"U+03FE">>>>, <<"U+037D", <<"U+03FF">>>>,
     <<"U+0390", <<"U+0399", "U+0308", "U+0301">>>>,
     <<"U+03AC", <<"U+0386">>>>, <<"U+03AD", <<"U+0388">>>>,
     <<"U+03AE", <<"U+0389">>>>, <<"U+03AF", <<"U+038A">>>>,
     <<"U+03B0", <<"U+03A5", "U+0308", "U+0301">>>>,
     <<"U+03B1", <<"U+0391">>>>, <<"U+03B2", <<"U+0392">>>>,
     <<"U+03B3", <<"U+0393">>>>, <<"U+03B4", <<"U+0394">>>>,
     <<"U+03B5", <<"U+0395">>>>, <<"U+03B6", <<"U+0396">>>>,
     <<"U+03B7", <<"U+0397">>>>, <<"U+03B8", <<"U+0398">>>>,
     <<"U+03B9", <<"U+0399">>>>, <<"U+03BA", <<"U+039A">>>>,
     <<"U+03BB", <<"U+039B">>>>, <<"U+03BC", <<"U+039C">>>>,
     <<"U+03BD", <<"U+039D">>>>, <<"U+03BE", <<"U+039E">>>>,
     <<"U+03BF", <<"U+039F">>>>, <<"U+03C0", <<"U+03A0">>>>,
     <<"U+03C1", <<"U+03A1">>>>, <<"U+03C2", <<"U+03A3">>>>,
     <<"U+03C3", <<"U+03A3">>>>, <<"U+03C4", <<"U+03A4">>>>,
     <<"U+03C5", <<"U+03A5">>>>, <<"U+03C6", <<"U+03A6">>>>,
     <<"U+03C7", <<"U+03A7">>>>, <<"U+03C8", <<"U+03A8">>>>,
     <<"U+03C9", <<"U+03A9">>>>, <<"U+03CA", <<"U+03AA">>>>,
     <<"U+03CB", <<"U+03AB">>>>, <<"U+03CC", <<"U+038C">>>>,
     <<"U+03CD", <<"U+038E">>>>, <<"U+03CE", <<"U+038F">>>>,
     <<"U+03D0", <<"U+0392">>>>, <<"U+03D1", <<"U+0398">>>>,
     <<"U+03D5", <<"U+03A6">>>>, <<"U+03D6", <<"U+03A0">>>>,
     <<"U+03D7", <<"U+03CF">>>>, <<"U+03D9", <<"U+03D8">>>>,
     <<"U+03DB", <<"U+03DA">>>>, <<"U+03DD", <<"U+03DC">>>>,
     <<"U+03DF", <<"U+03DE">>>>, <<"U+03E1", <<"U+03E0">>>>,
     <<"U+03E3", <<"U+03E2">>>>, <<"U+03E5", <<"U+03E4">>>>,
     <<"U+03E7", <<"U+03E6">>>>, <<"U+03E9", <<"U+03E8">>>>,
     <<"U+03EB", <<"U+03EA">>>>, <<"U+03ED", <<"U+03EC">>>>,
     <<"U+03EF", <<"U+03EE">>>>, <<"U+03F0", <<"U+039A">>>>,
     <<"U+03F1", <<"U+03A1">>>>, <<"U+03F2", <<"U+03F9">>>>,
     <<"U+03F3", <<"U+037F">>>>, <<"U+03F5", <<"U+0395">>>>,
     <<"U+03F8", <<"U+03F7">>>>, <<"U+03FB", <<"U+03FA">>>>,
     <<"U+0430", <<"U+0410">>>>, <<"U+0431", <<"U+0411">>>>,
     <<"U+0432", <<"U+0412">>>>, <<"U+0433", <<"U+0413">>>>,
     <<"U+0434", <<"U+0414">>>>, <<"U+0435", <<"U+0415">>>>,
     <<"U+0436", <<"U+0416">>>>, <<"U+0437", <<"U+0417">>>>,
     <<"U+0438", <<"U+0418">>>>, <<"U+0439", <<"U+0419">>>>,
     <<"U+043A", <<"U+041A">>>>, <<"U+043B", <<"U+041B">>>>,
     <<"U+043C", <<"U+041C">>>>, <<"U+043D", <<"U+041D">>>>,
     <<"U+043E", <<"U+041E">>>>, <<"U+043F", <<"U+041F">>>>,
     <<"U+0440", <<"U+0420">>>>, <<"U+0441", <<"U+0421">>>>,
     <<"U+0442", <<"U+0422">>>>, <<"U+0443", <<"U+0423">>>>,
     <<"U+0444", <<"U+0424">>>>, <<"U+0445", <<"U+0425">>>>,
     <<"U+0446", <<"U+0426">>>>, <<"U+0447", <<"U+0427">>>>,
     <<"U+0448", <<"U+0428">>>>, <<"U+0449", <<"U+0429">>>>,
     <<"U+044A", <<"U+042A">>>>, <<"U+044B", <<"U+042B">>>>,
     <<"U+044C", <<"U+042C">>>>, <<"U+044D", <<"U+042D">>>>,
     <<"U+044E", <<"U+042E">>>>, <<"U+044F", <<"U+042F">>>>,
     <<"U+0450", <<"U+0400">>>>, <<"U+0451", <<"U+0401">>>>,
     <<"U+0452", <<"U+0402">>>>, <<"U+0453", <<"U+0403">>>>,
     <<"U+0454", <<"U+0404">>>>, <<"U+0455", <<"U+0405">>>>,
     <<"U+0456", <<"U+0406">>>>, <<"U+0457", <<"U+0407">>>>,
     <<"U+0458", <<"U+0408">>>>, <<"U+0459", <<"U+0409">>>>,
     <<"U+045A", <<"U+040A">>>>, <<"U+045B", <<"U+040B">>>>,
     <<"U+045C", <<"U+040C">>>>, <<"U+045D", <<"U+040D">>>>,
     <<"U+045E", <<"U+040E">>>>, <<"U+045F", <<"U+040F">>>>,
     <<"U+0461", <<"U+0460">>>>, <<"U+0463", <<"U+0462">>>>,
     <<"U+0465", <<"U+0464">>>>, <<"U+0467", <<"U+0466">>>>,
     <<"U+0469", <<"U+0468">>>>, <<"U+046B", <<"U+046A">>>>,
     <<"U+046D", <<"U+046C">>>>, <<"U+046F", <<"U+046E">>>>,
     <<"U+0471", <<"U+0470">>>>, <<"U+0473", <<"U+0472">>>>,
     <<"U+0475", <<"U+0474">>>>, <<"U+0477", <<"U+0476">>>>,
     <<"U+0479", <<"U+0478">>>>, <<"U+047B", <<"U+047A">>>>,
     <<"U+047D", <<"U+047C">>>>, <<"U+047F", <<"U+047E">>>>,
     <<"U+0481", <<"U+0480">>>>, <<"U+048B", <<"U+048A">>>>,
     <<"U+048D", <<"U+048C">>>>, <<"U+048F", <<"U+048E">>>>,
     <<"U+0491", <<"U+0490">>>>, <<"U+0493", <<"U+0492">>>>,
     <<"U+0495", <<"U+0494">>>>, <<"U+0497", <<"U+0496">>>>,
     <<"U+0499", <<"U+0498">>>>, <<"U+049B", <<"U+049A">>>>,
     <<"U+049D", <<"U+049C">>>>, <<"U+049F", <<"U+049E">>>>,
     <<"U+04A1", <<"U+04A0">>>>, <<"U+04A3", <<"U+04A2">>>>,
     <<"U+04A5", <<"U+04A4">>>>, <<"U+04A7", <<"U+04A6">>>>,
     <<"U+04A9", <<"U+04A8">>>>, <<"U+04AB", <<"U+04AA">>>>,
     <<"U+04AD", <<"U+04AC">>>>, <<"U+04AF", <<"U+04AE">>>>,
     <<"U+04B1", <<"U+04B0">>>>, <<"U+04B3", <<"U+04B2">>>>,
     <<"U+04B5", <<"U+04B4">>>>, <<"U+04B7", <<"U+04B6">>>>,
     <<"U+04B9", <<"U+04B8">>>>, <<"U+04BB", <<"U+04BA">>>>,
     <<"U+04BD", <<"U+04BC">>>>, <<"U+04BF", <<"U+04BE">>>>,
     <<"U+04C2", <<"U+04C1">>>>, <<"U+04C4", <<"U+04C3">>>>,
     <<"U+04C6", <<"U+04C5">>>>, <<"U+04C8", <<"U+04C7">>>>,
     <<"U+04CA", <<"U+04C9">>>>, <<"U+04CC", <<"U+04CB">>>>,
     <<"U+04CE", <<"U+04CD">>>>, <<"U+04CF", <<"U+04C0">>>>,
     <<"U+04D1", <<"U+04D0">>>>, <<"U+04D3", <<"U+04D2">>>>,
     <<"U+04D5", <<"U+04D4">>>>, <<"U+04D7", <<"U+04D6">>>>,
     <<"U+04D9", <<"U+04D8">>>>, <<"U+04DB", <<"U+04DA">>>>,
     <<"U+04DD", <<"U+04DC">>>>, <<"U+04DF", <<"U+04DE">>>>,
     <<"U+04E1", <<"U+04E0">>>>, <<"U+04E3", <<"U+04E2">>>>,
     <<"U+04E5", <<"U+04E4">>>>, <<"U+04E7", <<"U+04E6">>>>,
     <<"U+04E9", <<"U+04E8">>>>, <<"U+04EB", <<"U+04EA">>>>,
     <<"U+04ED", <<"U+04EC">>>>, <<"U+04EF", <<"U+04EE">>>>,
     <<"U+04F1", <<"U+04F0">>>>, <<"U+04F3", <<"U+04F2">>>>,
     <<"U+04F5", <<"U+04F4">>>>, <<"U+04F7", <<"U+04F6">>>>,
     <<"U+04F9", <<"U+04F8">>>>, <<"U+04FB", <<"U+04FA">>>>,
     <<"U+04FD", <<"U+04FC">>>>, <<"U+04FF", <<"U+04FE">>>>,
     <<"U+0501", <<"U+0500">>>>, <<"U+0503", <<"U+0502">>>>,
     <<"U+0505", <<"U+0504">>>>, <<"U+0507", <<"U+0506">>>>,
     <<"U+0509", <<"U+0508">>>>, <<"U+050B", <<"U+050A">>>>,
     <<"U+050D", <<"U+050C">>>>, <<"U+050F", <<"U+050E">>>>,
     <<"U+0511", <<"U+0510">>>>, <<"U+0513", <<"U+0512">>>>,
     <<"U+0515", <<"U+0514">>>>, <<"U+0517", <<"U+0516">>>>,
     <<"U+0519", <<"U+0518">>>>, <<"U+051B", <<"U+051A">>>>,
     <<"U+051D", <<"U+051C">>>>, <<"U+051F", <<"U+051E">>>>,
     <<"U+0521", <<"U+0520">>>>, <<"U+0523", <<"U+0522">>>>,
     <<"U+0525", <<"U+0524">>>>, <<"U+0527", <<"U+0526">>>>,
     <<"U+0529", <<"U+0528">>>>, <<"U+052B", <<"U+052A">>>>,
     <<"U+052D", <<"U+052C">>>>, <<"U+052F", <<"U+052E">>>>,
     <<"U+0561", <<"U+0531">>>>, <<"U+0562", <<"U+0532">>>>,
     <<"U+0563", <<"U+0533">>>>, <<"U+0564", <<"U+0534">>>>,
     <<"U+0565", <<"U+0535">>>>, <<"U+0566", <<"U+0536">>>>,
     <<"U+0567", <<"U+0537">>>>, <<"U+0568", <<"U+0538">>>>,
     <<"U+0569", <<"U+0539">>>>, <<"U+056A", <<"U+053A">>>>,
     <<"U+056B", <<"U+053B">>>>, <<"U+056C", <<"U+053C">>>>,
     <<"U+056D", <<"U+053D">>>>, <<"U+056E", <<"U+053E">>>>,
     <<"U+056F", <<"U+053F">>>>, <<"U+0570", <<"U+0540">>>>,
     <<"U+0571", <<"U+0541">>>>, <<"U+0572", <<"U+0542">>>>,
     <<"U+0573", <<"U+0543">>>>, <<"U+0574", <<"U+0544">>>>,
     <<"U+0575", <<"U+0545">>>>, <<"U+0576", <<"U+0546">>>>,
     <<"U+0577", <<"U+0547">>>>, <<"U+0578", <<"U+0548">>>>,
     <<"U+0579", <<"U+0549">>>>, <<"U+057A", <<"U+054A">>>>,
     <<"U+057B", <<"U+054B">>>>, <<"U+057C", <<"U+054C">>>>,
     <<"U+057D", <<"U+054D">>>>, <<"U+057E", <<"U+054E">>>>,
     <<"U+057F", <<"U+054F">>>>, <<"U+0580", <<"U+0550">>>>,
     <<"U+0581", <<"U+0551">>>>, <<"U+0582", <<"U+0552">>>>,
     <<"U+0583", <<"U+0553">>>>, <<"U+0584", <<"U+0554">>>>,
     <<"U+0585", <<"U+0555">>>>, <<"U+0586", <<"U+0556">>>>,
     <<"U+0587", <<"U+0535", "U+0552">>>>, <<"U+10D0", <<"U+1C90">>>>,
     <<"U+10D1", <<"U+1C91">>>>, <<"U+10D2", <<"U+1C92">>>>,
     <<"U+10D3", <<"U+1C93">>>>, <<"U+10D4", <<"U+1C94">>>>,
     <<"U+10D5", <<"U+1C95">>>>, <<"U+10D6", <<"U+1C96">>>>,
     <<"U+10D7", <<"U+1C97">>>>, <<"U+10D8", <<"U+1C98">>>>,
     <<"U+10D9", <<"U+1C99">>>>, <<"U+10DA", <<"U+1C9A">>>>,
     <<"U+10DB", <<"U+1C9B">>>>, <<"U+10DC", <<"U+1C9C">>>>,
     <<"U+10DD", <<"U+1C9D">>>>, <<"U+10DE", <<"U+1C9E">>>>,
     <<"U+10DF", <<"U+1C9F">>>>, <<"U+10E0", <<"U+1CA0">>>>,
     <<"U+10E1", <<"U+1CA1">>>>, <<"U+10E2", <<"U+1CA2">>>>,
     <<"U+10E3", <<"U+1CA3">>>>, <<"U+10E4", <<"U+1CA4">>>>,
     <<"U+10E5", <<"U+1CA5">>>>, <<"U+10E6", <<"U+1CA6">>>>,
     <<"U+10E7", <<"U+1CA7">>>>, <<"U+10E8", <<"U+1CA8">>>>,
     <<"U+10E9", <<"U+1CA9">>>>, <<"U+10EA", <<"U+1CAA">>>>,
     <<"U+10EB", <<"U+1CAB">>>>, <<"U+10EC", <<"U+1CAC">>>>,
     <<"U+10ED", <<"U+1CAD">>>>, <<"U+10EE", <<"U+1CAE">>>>,
     <<"U+10EF", <<"U+1CAF">>>>, <<"U+10F0", <<"U+1CB0">>>>,
     <<"U+10F1", <<"U+1CB1">>>>, <<"U+10F2", <<"U+1CB2">>>>,
     <<"U+10F3", <<"U+1CB3">>>>, <<"U+10F4", <<"U+1CB4">>>>,
     <<"U+10F5", <<"U+1CB5">>>>, <<"U+10F6", <<"U+1CB6">>>>,
     <<"U+10F7", <<"U+1CB7">>>>, <<"U+10F8", <<"U+1CB8">>>>,
     <<"U+10F9", <<"U+1CB9">>>>, <<"U+10FA", <<"U+1CBA">>>>,
     <<"U+10FD", <<"U+1CBD">>>>, <<"U+10FE", <<"U+1CBE">>>>,
     <<"U+10FF", <<"U+1CBF">>>>, <<"U+13F8", <<"U+13F0">>>>,
     <<"U+13F9", <<"U+13F1">>>>, <<"U+13FA", <<"U+13F2">>>>,
     <<"U+13FB", <<"U+13F3">>>>, <<"U+13FC", <<"U+13F4">>>>,
     <<"U+13FD", <<"U+13F5">>>>, <<"U+1C80", <<"U+0412">>>>,
     <<"U+1C81", <<"U+0414">>>>, <<"U+1C82", <<"U+041E">>>>,
     <<"U+1C83", <<"U+0421">>>>, <<"U+1C84", <<"U+0422">>>>,
     <<"U+1C85", <<"U+0422">>>>, <<"U+1C86", <<"U+042A">>>>,
     <<"U+1C87", <<"U+0462">>>>, <<"U+1C88", <<"U+A64A">>>>,
     <<"U+1C8A", <<"U+1C89">>>>, <<"U+1D79", <<"U+A77D">>>>,
     <<"U+1D7D", <<"U+2C63">>>>, <<"U+1D8E", <<"U+A7C6">>>>,
     <<"U+1E01", <<"U+1E00">>>>, <<"U+1E03", <<"U+1E02">>>>,
     <<"U+1E05", <<"U+1E04">>>>, <<"U+1E07", <<"U+1E06">>>>,
     <<"U+1E09", <<"U+1E08">>>>, <<"U+1E0B", <<"U+1E0A">>>>,
     <<"U+1E0D", <<"U+1E0C">>>>, <<"U+1E0F", <<"U+1E0E">>>>,
     <<"U+1E11", <<"U+1E10">>>>, <<"U+1E13", <<"U+1E12">>>>,
     <<"U+1E15", <<"U+1E14">>>>, <<"U+1E17", <<"U+1E16">>>>,
     <<"U+1E19", <<"U+1E18">>>>, <<"U+1E1B", <<"U+1E1A">>>>,
     <<"U+1E1D", <<"U+1E1C">>>>, <<"U+1E1F", <<"U+1E1E">>>>,
     <<"U+1E21", <<"U+1E20">>>>, <<"U+1E23", <<"U+1E22">>>>,
     <<"U+1E25", <<"U+1E24">>>>, <<"U+1E27", <<"U+1E26">>>>,
     <<"U+1E29", <<"U+1E28">>>>, <<"U+1E2B", <<"U+1E2A">>>>,
     <<"U+1E2D", <<"U+1E2C">>>>, <<"U+1E2F", <<"U+1E2E">>>>,
     <<"U+1E31", <<"U+1E30">>>>, <<"U+1E33", <<"U+1E32">>>>,
     <<"U+1E35", <<"U+1E34">>>>, <<"U+1E37", <<"U+1E36">>>>,
     <<"U+1E39", <<"U+1E38">>>>, <<"U+1E3B", <<"U+1E3A">>>>,
     <<"U+1E3D", <<"U+1E3C">>>>, <<"U+1E3F", <<"U+1E3E">>>>,
     <<"U+1E41", <<"U+1E40">>>>, <<"U+1E43", <<"U+1E42">>>>,
     <<"U+1E45", <<"U+1E44">>>>, <<"U+1E47", <<"U+1E46">>>>,
     <<"U+1E49", <<"U+1E48">>>>, <<"U+1E4B", <<"U+1E4A">>>>,
     <<"U+1E4D", <<"U+1E4C">>>>, <<"U+1E4F", <<"U+1E4E">>>>,
     <<"U+1E51", <<"U+1E50">>>>, <<"U+1E53", <<"U+1E52">>>>,
     <<"U+1E55", <<"U+1E54">>>>, <<"U+1E57", <<"U+1E56">>>>,
     <<"U+1E59", <<"U+1E58">>>>, <<"U+1E5B", <<"U+1E5A">>>>,
     <<"U+1E5D", <<"U+1E5C">>>>, <<"U+1E5F", <<"U+1E5E">>>>,
     <<"U+1E61", <<"U+1E60">>>>, <<"U+1E63", <<"U+1E62">>>>,
     <<"U+1E65", <<"U+1E64">>>>, <<"U+1E67", <<"U+1E66">>>>,
     <<"U+1E69", <<"U+1E68">>>>, <<"U+1E6B", <<"U+1E6A">>>>,
     <<"U+1E6D", <<"U+1E6C">>>>, <<"U+1E6F", <<"U+1E6E">>>>,
     <<"U+1E71", <<"U+1E70">>>>, <<"U+1E73", <<"U+1E72">>>>,
     <<"U+1E75", <<"U+1E74">>>>, <<"U+1E77", <<"U+1E76">>>>,
     <<"U+1E79", <<"U+1E78">>>>, <<"U+1E7B", <<"U+1E7A">>>>,
     <<"U+1E7D", <<"U+1E7C">>>>, <<"U+1E7F", <<"U+1E7E">>>>,
     <<"U+1E81", <<"U+1E80">>>>, <<"U+1E83", <<"U+1E82">>>>,
     <<"U+1E85", <<"U+1E84">>>>, <<"U+1E87", <<"U+1E86">>>>,
     <<"U+1E89", <<"U+1E88">>>>, <<"U+1E8B", <<"U+1E8A">>>>,
     <<"U+1E8D", <<"U+1E8C">>>>, <<"U+1E8F", <<"U+1E8E">>>>,
     <<"U+1E91", <<"U+1E90">>>>, <<"U+1E93", <<"U+1E92">>>>,
     <<"U+1E95", <<"U+1E94">>>>, <<"U+1E96", <<"H", "U+0331">>>>,
     <<"U+1E97", <<"T", "U+0308">>>>, <<"U+1E98", <<"W", "U+030A">>>>,
     <<"U+1E99", <<"Y", "U+030A">>>>, <<"U+1E9A", <<"A", "U+02BE">>>>,
     <<"U+1E9B", <<"U+1E60">>>>, <<"U+1EA1", <<"U+1EA0">>>>,
     <<"U+1EA3", <<"U+1EA2">>>>, <<"U+1EA5", <<"U+1EA4">>>>,
     <<"U+1EA7", <<"U+1EA6">>>>, <<"U+1EA9", <<"U+1EA8">>>>,
     <<"U+1EAB", <<"U+1EAA">>>>, <<"U+1EAD", <<"U+1EAC">>>>,
     <<"U+1EAF", <<"U+1EAE">>>>, <<"U+1EB1", <<"U+1EB0">>>>,
     <<"U+1EB3", <<"U+1EB2">>>>, <<"U+1EB5", <<"U+1EB4">>>>,
     <<"U+1EB7", <<"U+1EB6">>>>, <<"U+1EB9", <<"U+1EB8">>>>,
     <<"U+1EBB", <<"U+1EBA">>>>, <<"U+1EBD", <<"U+1EBC">>>>,
     <<"U+1EBF", <<"U+1EBE">>>>, <<"U+1EC1", <<"U+1EC0">>>>,
     <<"U+1EC3", <<"U+1EC2">>>>, <<"U+1EC5", <<"U+1EC4">>>>,
     <<"U+1EC7", <<"U+1EC6">>>>, <<"U+1EC9", <<"U+1EC8">>>>,
     <<"U+1ECB", <<"U+1ECA">>>>, <<"U+1ECD", <<"U+1ECC">>>>,
     <<"U+1ECF", <<"U+1ECE">>>>, <<"U+1ED1", <<"U+1ED0">>>>,
     <<"U+1ED3", <<"U+1ED2">>>>, <<"U+1ED5", <<"U+1ED4">>>>,
     <<"U+1ED7", <<"U+1ED6">>>>, <<"U+1ED9", <<"U+1ED8">>>>,
     <<"U+1EDB", <<"U+1EDA">>>>, <<"U+1EDD", <<"U+1EDC">>>>,
     <<"U+1EDF", <<"U+1EDE">>>>, <<"U+1EE1", <<"U+1EE0">>>>,
     <<"U+1EE3", <<"U+1EE2">>>>, <<"U+1EE5", <<"U+1EE4">>>>,
     <<"U+1EE7", <<"U+1EE6">>>>, <<"U+1EE9", <<"U+1EE8">>>>,
     <<"U+1EEB", <<"U+1EEA">>>>, <<"U+1EED", <<"U+1EEC">>>>,
     <<"U+1EEF", <<"U+1EEE">>>>, <<"U+1EF1", <<"U+1EF0">>>>,
     <<"U+1EF3", <<"U+1EF2">>>>, <<"U+1EF5", <<"U+1EF4">>>>,
     <<"U+1EF7", <<"U+1EF6">>>>, <<"U+1EF9", <<"U+1EF8">>>>,
     <<"U+1EFB", <<"U+1EFA">>>>, <<"U+1EFD", <<"U+1EFC">>>>,
     <<"U+1EFF", <<"U+1EFE">>>>, <<"U+1F00", <<"U+1F08">>>>,
     <<"U+1F01", <<"U+1F09">>>>, <<"U+1F02", <<"U+1F0A">>>>,
     <<"U+1F03", <<"U+1F0B">>>>, <<"U+1F04", <<"U+1F0C">>>>,
     <<"U+1F05", <<"U+1F0D">>>>, <<"U+1F06", <<"U+1F0E">>>>,
     <<"U+1F07", <<"U+1F0F">>>>, <<"U+1F10", <<"U+1F18">>>>,
     <<"U+1F11", <<"U+1F19">>>>, <<"U+1F12", <<"U+1F1A">>>>,
     <<"U+1F13", <<"U+1F1B">>>>, <<"U+1F14", <<"U+1F1C">>>>,
     <<"U+1F15", <<"U+1F1D">>>>, <<"U+1F20", <<"U+1F28">>>>,
     <<"U+1F21", <<"U+1F29">>>>, <<"U+1F22", <<"U+1F2A">>>>,
     <<"U+1F23", <<"U+1F2B">>>>, <<"U+1F24", <<"U+1F2C">>>>,
     <<"U+1F25", <<"U+1F2D">>>>, <<"U+1F26", <<"U+1F2E">>>>,
     <<"U+1F27", <<"U+1F2F">>>>, <<"U+1F30", <<"U+1F38">>>>,
     <<"U+1F31", <<"U+1F39">>>>, <<"U+1F32", <<"U+1F3A">>>>,
     <<"U+1F33", <<"U+1F3B">>>>, <<"U+1F34", <<"U+1F3C">>>>,
     <<"U+1F35", <<"U+1F3D">>>>, <<"U+1F36", <<"U+1F3E">>>>,
     <<"U+1F37", <<"U+1F3F">>>>, <<"U+1F40", <<"U+1F48">>>>,
     <<"U+1F41", <<"U+1F49">>>>, <<"U+1F42", <<"U+1F4A">>>>,
     <<"U+1F43", <<"U+1F4B">>>>, <<"U+1F44", <<"U+1F4C">>>>,
     <<"U+1F45", <<"U+1F4D">>>>, <<"U+1F50", <<"U+03A5", "U+0313">>>>,
     <<"U+1F51", <<"U+1F59">>>>,
     <<"U+1F52", <<"U+03A5", "U+0313", "U+0300">>>>,
     <<"U+1F53", <<"U+1F5B">>>>,
     <<"U+1F54", <<"U+03A5", "U+0313", "U+0301">>>>,
     <<"U+1F55", <<"U+1F5D">>>>,
     <<"U+1F56", <<"U+03A5", "U+0313", "U+0342">>>>,
     <<"U+1F57", <<"U+1F5F">>>>, <<"U+1F60", <<"U+1F68">>>>,
     <<"U+1F61", <<"U+1F69">>>>, <<"U+1F62", <<"U+1F6A">>>>,
     <<"U+1F63", <<"U+1F6B">>>>, <<"U+1F64", <<"U+1F6C">>>>,
     <<"U+1F65", <<"U+1F6D">>>>, <<"U+1F66", <<"U+1F6E">>>>,
     <<"U+1F67", <<"U+1F6F">>>>, <<"U+1F70", <<"U+1FBA">>>>,
     <<"U+1F71", <<"U+1FBB">>>>, <<"U+1F72", <<"U+1FC8">>>>,
     <<"U+1F73", <<"U+1FC9">>>>, <<"U+1F74", <<"U+1FCA">>>>,
     <<"U+1F75", <<"U+1FCB">>>>, <<"U+1F76", <<"U+1FDA">>>>,
     <<"U+1F77", <<"U+1FDB">>>>, <<"U+1F78", <<"U+1FF8">>>>,
     <<"U+1F79", <<"U+1FF9">>>>, <<"U+1F7A", <<"U+1FEA">>>>,
     <<"U+1F7B", <<"U+1FEB">>>>, <<"U+1F7C", <<"U+1FFA">>>>,
     <<"U+1F7D", <<"U+1FFB">>>>, <<"U+1F80", <<"U+1F08", "U+0399">>>>,
     <<"U+1F81", <<"U+1F09", "U+0399">>>>,
     <<"U+1F82", <<"U+1F0A", "U+0399">>>>,
     <<"U+1F83", <<"U+1F0B", "U+0399">>>>,
     <<"U+1F84", <<"U+1F0C", "U+0399">>>>,
     <<"U+1F85", <<"U+1F0D", "U+0399">>>>,
     <<"U+1F86", <<"U+1F0E", "U+0399">>>>,
     <<"U+1F87", <<"U+1F0F", "U+0399">>>>,
     <<"U+1F88", <<"U+1F08", "U+0399">>>>,
     <<"U+1F89", <<"U+1F09", "U+0399">>>>,
     <<"U+1F8A", <<"U+1F0A", "U+0399">>>>,
     <<"U+1F8B", <<"U+1F0B", "U+0399">>>>,
     <<"U+1F8C", <<"U+1F0C", "U+0399">>>>,
     <<"U+1F8D", <<"U+1F0D", "U+0399">>>>,
     <<"U+1F8E", <<"U+1F0E", "U+0399">>>>,
     <<"U+1F8F", <<"U+1F0F", "U+0399">>>>,
     <<"U+1F90", <<"U+1F28", "U+0399">>>>,
     <<"U+1F91", <<"U+1F29", "U+0399">>>>,
     <<"U+1F92", <<"U+1F2A", "U+0399">>>>,
     <<"U+1F93", <<"U+1F2B", "U+0399">>>>,
     <<"U+1F94", <<"U+1F2C", "U+0399">>>>,
     <<"U+1F95", <<"U+1F2D", "U+0399">>>>,
     <<"U+1F96", <<"U+1F2E", "U+0399">>>>,
     <<"U+1F97", <<"U+1F2F", "U+0399">>>>,
     <<"U+1F98", <<"U+1F28", "U+0399">>>>,
     <<"U+1F99", <<"U+1F29", "U+0399">>>>,
     <<"U+1F9A", <<"U+1F2A", "U+0399">>>>,
     <<"U+1F9B", <<"U+1F2B", "U+0399">>>>,
     <<"U+1F9C", <<"U+1F2C", "U+0399">>>>,
     <<"U+1F9D", <<"U+1F2D", "U+0399">>>>,
     <<"U+1F9E", <<"U+1F2E", "U+0399">>>>,
     <<"U+1F9F", <<"U+1F2F", "U+0399">>>>,
     <<"U+1FA0", <<"U+1F68", "U+0399">>>>,
     <<"U+1FA1", <<"U+1F69", "U+0399">>>>,
     <<"U+1FA2", <<"U+1F6A", "U+0399">>>>,
     <<"U+1FA3", <<"U+1F6B", "U+0399">>>>,
     <<"U+1FA4", <<"U+1F6C", "U+0399">>>>,
     <<"U+1FA5", <<"U+1F6D", "U+0399">>>>,
     <<"U+1FA6", <<"U+1F6E", "U+0399">>>>,
     <<"U+1FA7", <<"U+1F6F", "U+0399">>>>,
     <<"U+1FA8", <<"U+1F68", "U+0399">>>>,
     <<"U+1FA9", <<"U+1F69", "U+0399">>>>,
     <<"U+1FAA", <<"U+1F6A", "U+0399">>>>,
     <<"U+1FAB", <<"U+1F6B", "U+0399">>>>,
     <<"U+1FAC", <<"U+1F6C", "U+0399">>>>,
     <<"U+1FAD", <<"U+1F6D", "U+0399">>>>,
     <<"U+1FAE", <<"U+1F6E", "U+0399">>>>,
     <<"U+1FAF", <<"U+1F6F", "U+0399">>>>, <<"U+1FB0", <<"U+1FB8">>>>,
     <<"U+1FB1", <<"U+1FB9">>>>, <<"U+1FB2", <<"U+1FBA", "U+0399">>>>,
     <<"U+1FB3", <<"U+0391", "U+0399">>>>,
     <<"U+1FB4", <<"U+0386", "U+0399">>>>,
     <<"U+1FB6", <<"U+0391", "U+0342">>>>,
     <<"U+1FB7", <<"U+0391", "U+0342", "U+0399">>>>,
     <<"U+1FBC", <<"U+0391", "U+0399">>>>, <<"U+1FBE", <<"U+0399">>>>,
     <<"U+1FC2", <<"U+1FCA", "U+0399">>>>,
     <<"U+1FC3", <<"U+0397", "U+0399">>>>,
     <<"U+1FC4", <<"U+0389", "U+0399">>>>,
     <<"U+1FC6", <<"U+0397", "U+0342">>>>,
     <<"U+1FC7", <<"U+0397", "U+0342", "U+0399">>>>,
     <<"U+1FCC", <<"U+0397", "U+0399">>>>, <<"U+1FD0", <<"U+1FD8">>>>,
     <<"U+1FD1", <<"U+1FD9">>>>,
     <<"U+1FD2", <<"U+0399", "U+0308", "U+0300">>>>,
     <<"U+1FD3", <<"U+0399", "U+0308", "U+0301">>>>,
     <<"U+1FD6", <<"U+0399", "U+0342">>>>,
     <<"U+1FD7", <<"U+0399", "U+0308", "U+0342">>>>,
     <<"U+1FE0", <<"U+1FE8">>>>, <<"U+1FE1", <<"U+1FE9">>>>,
     <<"U+1FE2", <<"U+03A5", "U+0308", "U+0300">>>>,
     <<"U+1FE3", <<"U+03A5", "U+0308", "U+0301">>>>,
     <<"U+1FE4", <<"U+03A1", "U+0313">>>>, <<"U+1FE5", <<"U+1FEC">>>>,
     <<"U+1FE6", <<"U+03A5", "U+0342">>>>,
     <<"U+1FE7", <<"U+03A5", "U+0308", "U+0342">>>>,
     <<"U+1FF2", <<"U+1FFA", "U+0399">>>>,
     <<"U+1FF3", <<"U+03A9", "U+0399">>>>,
     <<"U+1FF4", <<"U+038F", "U+0399">>>>,
     <<"U+1FF6", <<"U+03A9", "U+0342">>>>,
     <<"U+1FF7", <<"U+03A9", "U+0342", "U+0399">>>>,
     <<"U+1FFC", <<"U+03A9", "U+0399">>>>, <<"U+214E", <<"U+2132">>>>,
     <<"U+2170", <<"U+2160">>>>, <<"U+2171", <<"U+2161">>>>,
     <<"U+2172", <<"U+2162">>>>, <<"U+2173", <<"U+2163">>>>,
     <<"U+2174", <<"U+2164">>>>, <<"U+2175", <<"U+2165">>>>,
     <<"U+2176", <<"U+2166">>>>, <<"U+2177", <<"U+2167">>>>,
     <<"U+2178", <<"U+2168">>>>, <<"U+2179", <<"U+2169">>>>,
     <<"U+217A", <<"U+216A">>>>, <<"U+217B", <<"U+216B">>>>,
     <<"U+217C", <<"U+216C">>>>, <<"U+217D", <<"U+216D">>>>,
     <<"U+217E", <<"U+216E">>>>, <<"U+217F", <<"U+216F">>>>,
     <<"U+2184", <<"U+2183">>>>, <<"U+24D0", <<"U+24B6">>>>,
     <<"U+24D1", <<"U+24B7">>>>, <<"U+24D2", <<"U+24B8">>>>,
     <<"U+24D3", <<"U+24B9">>>>, <<"U+24D4", <<"U+24BA">>>>,
     <<"U+24D5", <<"U+24BB">>>>, <<"U+24D6", <<"U+24BC">>>>,
     <<"U+24D7", <<"U+24BD">>>>, <<"U+24D8", <<"U+24BE">>>>,
     <<"U+24D9", <<"U+24BF">>>>, <<"U+24DA", <<"U+24C0">>>>,
     <<"U+24DB", <<"U+24C1">>>>, <<"U+24DC", <<"U+24C2">>>>,
     <<"U+24DD", <<"U+24C3">>>>, <<"U+24DE", <<"U+24C4">>>>,
     <<"U+24DF", <<"U+24C5">>>>, <<"U+24E0", <<"U+24C6">>>>,
     <<"U+24E1", <<"U+24C7">>>>, <<"U+24E2", <<"U+24C8">>>>,
     <<"U+24E3", <<"U+24C9">>>>, <<"U+24E4", <<"U+24CA">>>>,
     <<"U+24E5", <<"U+24CB">>>>, <<"U+24E6", <<"U+24CC">>>>,
     <<"U+24E7", <<"U+24CD">>>>, <<"U+24E8", <<"U+24CE">>>>,
     <<"U+24E9", <<"U+24CF">>>>, <<"U+2C30", <<"U+2C00">>>>,
     <<"U+2C31", <<"U+2C01">>>>, <<"U+2C32", <<"U+2C02">>>>,
     <<"U+2C33", <<"U+2C03">>>>, <<"U+2C34", <<"U+2C04">>>>,
     <<"U+2C35", <<"U+2C05">>>>, <<"U+2C36", <<"U+2C06">>>>,
     <<"U+2C37", <<"U+2C07">>>>, <<"U+2C38", <<"U+2C08">>>>,
     <<"U+2C39", <<"U+2C09">>>>, <<"U+2C3A", <<"U+2C0A">>>>,
     <<"U+2C3B", <<"U+2C0B">>>>, <<"U+2C3C", <<"U+2C0C">>>>,
     <<"U+2C3D", <<"U+2C0D">>>>, <<"U+2C3E", <<"U+2C0E">>>>,
     <<"U+2C3F", <<"U+2C0F">>>>, <<"U+2C40", <<"U+2C10">>>>,
     <<"U+2C41", <<"U+2C11">>>>, <<"U+2C42", <<"U+2C12">>>>,
     <<"U+2C43", <<"U+2C13">>>>, <<"U+2C44", <<"U+2C14">>>>,
     <<"U+2C45", <<"U+2C15">>>>, <<"U+2C46", <<"U+2C16">>>>,
     <<"U+2C47", <<"U+2C17">>>>, <<"U+2C48", <<"U+2C18">>>>,
     <<"U+2C49", <<"U+2C19">>>>, <<"U+2C4A", <<"U+2C1A">>>>,
     <<"U+2C4B", <<"U+2C1B">>>>, <<"U+2C4C", <<"U+2C1C">>>>,
     <<"U+2C4D", <<"U+2C1D">>>>, <<"U+2C4E", <<"U+2C1E">>>>,
     <<"U+2C4F", <<"U+2C1F">>>>, <<"U+2C50", <<"U+2C20">>>>,
     <<"U+2C51", <<"U+2C21">>>>, <<"U+2C52", <<"U+2C22">>>>,
     <<"U+2C53", <<"U+2C23">>>>, <<"U+2C54", <<"U+2C24">>>>,
     <<"U+2C55", <<"U+2C25">>>>, <<"U+2C56", <<"U+2C26">>>>,
     <<"U+2C57", <<"U+2C27">>>>, <<"U+2C58", <<"U+2C28">>>>,
     <<"U+2C59", <<"U+2C29">>>>, <<"U+2C5A", <<"U+2C2A">>>>,
     <<"U+2C5B", <<"U+2C2B">>>>, <<"U+2C5C", <<"U+2C2C">>>>,
     <<"U+2C5D", <<"U+2C2D">>>>, <<"U+2C5E", <<"U+2C2E">>>>,
     <<"U+2C5F", <<"U+2C2F">>>>, <<"U+2C61", <<"U+2C60">>>>,
     <<"U+2C65", <<"U+023A">>>>, <<"U+2C66", <<"U+023E">>>>,
     <<"U+2C68", <<"U+2C67">>>>, <<"U+2C6A", <<"U+2C69">>>>,
     <<"U+2C6C", <<"U+2C6B">>>>, <<"U+2C73", <<"U+2C72">>>>,
     <<"U+2C76", <<"U+2C75">>>>, <<"U+2C81", <<"U+2C80">>>>,
     <<"U+2C83", <<"U+2C82">>>>, <<"U+2C85", <<"U+2C84">>>>,
     <<"U+2C87", <<"U+2C86">>>>, <<"U+2C89", <<"U+2C88">>>>,
     <<"U+2C8B", <<"U+2C8A">>>>, <<"U+2C8D", <<"U+2C8C">>>>,
     <<"U+2C8F", <<"U+2C8E">>>>, <<"U+2C91", <<"U+2C90">>>>,
     <<"U+2C93", <<"U+2C92">>>>, <<"U+2C95", <<"U+2C94">>>>,
     <<"U+2C97", <<"U+2C96">>>>, <<"U+2C99", <<"U+2C98">>>>,
     <<"U+2C9B", <<"U+2C9A">>>>, <<"U+2C9D", <<"U+2C9C">>>>,
     <<"U+2C9F", <<"U+2C9E">>>>, <<"U+2CA1", <<"U+2CA0">>>>,
     <<"U+2CA3", <<"U+2CA2">>>>, <<"U+2CA5", <<"U+2CA4">>>>,
     <<"U+2CA7", <<"U+2CA6">>>>, <<"U+2CA9", <<"U+2CA8">>>>,
     <<"U+2CAB", <<"U+2CAA">>>>, <<"U+2CAD", <<"U+2CAC">>>>,
     <<"U+2CAF", <<"U+2CAE">>>>, <<"U+2CB1", <<"U+2CB0">>>>,
     <<"U+2CB3", <<"U+2CB2">>>>, <<"U+2CB5", <<"U+2CB4">>>>,
     <<"U+2CB7", <<"U+2CB6">>>>, <<"U+2CB9", <<"U+2CB8">>>>,
     <<"U+2CBB", <<"U+2CBA">>>>, <<"U+2CBD", <<"U+2CBC">>>>,
     <<"U+2CBF", <<"U+2CBE">>>>, <<"U+2CC1", <<"U+2CC0">>>>,
     <<"U+2CC3", <<"U+2CC2">>>>, <<"U+2CC5", <<"U+2CC4">>>>,
     <<"U+2CC7", <<"U+2CC6">>>>, <<"U+2CC9", <<"U+2CC8">>>>,
     <<"U+2CCB", <<"U+2CCA">>>>, <<"U+2CCD", <<"U+2CCC">>>>,
     <<"U+2CCF", <<"U+2CCE">>>>, <<"U+2CD1", <<"U+2CD0">>>>,
     <<"U+2CD3", <<"U+2CD2">>>>, <<"U+2CD5", <<"U+2CD4">>>>,
     <<"U+2CD7", <<"U+2CD6">>>>, <<"U+2CD9", <<"U+2CD8">>>>,
     <<"U+2CDB", <<"U+2CDA">>>>, <<"U+2CDD", <<"U+2CDC">>>>,
     <<"U+2CDF", <<"U+2CDE">>>>, <<"U+2CE1", <<"U+2CE0">>>>,
     <<"U+2CE3", <<"U+2CE2">>>>, <<"U+2CEC", <<"U+2CEB">>>>,
     <<"U+2CEE", <<"U+2CED">>>>, <<"U+2CF3", <<"U+2CF2">>>>,
     <<"U+2D00", <<"U+10A0">>>>, <<"U+2D01", <<"U+10A1">>>>,
     <<"U+2D02", <<"U+10A2">>>>, <<"U+2D03", <<"U+10A3">>>>,
     <<"U+2D04", <<"U+10A4">>>>, <<"U+2D05", <<"U+10A5">>>>,
     <<"U+2D06", <<"U+10A6">>>>, <<"U+2D07", <<"U+10A7">>>>,
     <<"U+2D08", <<"U+10A8">>>>, <<"U+2D09", <<"U+10A9">>>>,
     <<"U+2D0A", <<"U+10AA">>>>, <<"U+2D0B", <<"U+10AB">>>>,
     <<"U+2D0C", <<"U+10AC">>>>, <<"U+2D0D", <<"U+10AD">>>>,
     <<"U+2D0E", <<"U+10AE">>>>, <<"U+2D0F", <<"U+10AF">>>>,
     <<"U+2D10", <<"U+10B0">>>>, <<"U+2D11", <<"U+10B1">>>>,
     <<"U+2D12", <<"U+10B2">>>>, <<"U+2D13", <<"U+10B3">>>>,
     <<"U+2D14", <<"U+10B4">>>>, <<"U+2D15", <<"U+10B5">>>>,
     <<"U+2D16", <<"U+10B6">>>>, <<"U+2D17", <<"U+10B7">>>>,
     <<"U+2D18", <<"U+10B8">>>>, <<"U+2D19", <<"U+10B9">>>>,
     <<"U+2D1A", <<"U+10BA">>>>, <<"U+2D1B", <<"U+10BB">>>>,
     <<"U+2D1C", <<"U+10BC">>>>, <<"U+2D1D", <<"U+10BD">>>>,
     <<"U+2D1E", <<"U+10BE">>>>, <<"U+2D1F", <<"U+10BF">>>>,
     <<"U+2D20", <<"U+10C0">>>>, <<"U+2D21", <<"U+10C1">>>>,
     <<"U+2D22", <<"U+10C2">>>>, <<"U+2D23", <<"U+10C3">>>>,
     <<"U+2D24", <<"U+10C4">>>>, <<"U+2D25", <<"U+10C5">>>>,
     <<"U+2D27", <<"U+10C7">>>>, <<"U+2D2D", <<"U+10CD">>>>,
     <<"U+A641", <<"U+A640">>>>, <<"U+A643", <<"U+A642">>>>,
     <<"U+A645", <<"U+A644">>>>, <<"U+A647", <<"U+A646">>>>,
     <<"U+A649", <<"U+A648">>>>, <<"U+A64B", <<"U+A64A">>>>,
     <<"U+A64D", <<"U+A64C">>>>, <<"U+A64F", <<"U+A64E">>>>,
     <<"U+A651", <<"U+A650">>>>, <<"U+A653", <<"U+A652">>>>,
     <<"U+A655", <<"U+A654">>>>, <<"U+A657", <<"U+A656">>>>,
     <<"U+A659", <<"U+A658">>>>, <<"U+A65B", <<"U+A65A">>>>,
     <<"U+A65D", <<"U+A65C">>>>, <<"U+A65F", <<"U+A65E">>>>,
     <<"U+A661", <<"U+A660">>>>, <<"U+A663", <<"U+A662">>>>,
     <<"U+A665", <<"U+A664">>>>, <<"U+A667", <<"U+A666">>>>,
     <<"U+A669", <<"U+A668">>>>, <<"U+A66B", <<"U+A66A">>>>,
     <<"U+A66D", <<"U+A66C">>>>, <<"U+A681", <<"U+A680">>>>,
     <<"U+A683", <<"U+A682">>>>, <<"U+A685", <<"U+A684">>>>,
     <<"U+A687", <<"U+A686">>>>, <<"U+A689", <<"U+A688">>>>,
     <<"U+A68B", <<"U+A68A">>>>, <<"U+A68D", <<"U+A68C">>>>,
     <<"U+A68F", <<"U+A68E">>>>, <<"U+A691", <<"U+A690">>>>,
     <<"U+A693", <<"U+A692">>>>, <<"U+A695", <<"U+A694">>>>,
     <<"U+A697", <<"U+A696">>>>, <<"U+A699", <<"U+A698">>>>,
     <<"U+A69B", <<"U+A69A">>>>, <<"U+A723", <<"U+A722">>>>,
     <<"U+A725", <<"U+A724">>>>, <<"U+A727", <<"U+A726">>>>,
     <<"U+A729", <<"U+A728">>>>, <<"U+A72B", <<"U+A72A">>>>,
     <<"U+A72D", <<"U+A72C">>>>, <<"U+A72F", <<"U+A72E">>>>,
     <<"U+A733", <<"U+A732">>>>, <<"U+A735", <<"U+A734">>>>,
     <<"U+A737", <<"U+A736">>>>, <<"U+A739", <<"U+A738">>>>,
     <<"U+A73B", <<"U+A73A">>>>, <<"U+A73D", <<"U+A73C">>>>,
     <<"U+A73F", <<"U+A73E">>>>, <<"U+A741", <<"U+A740">>>>,
     <<"U+A743", <<"U+A742">>>>, <<"U+A745", <<"U+A744">>>>,
     <<"U+A747", <<"U+A746">>>>, <<"U+A749", <<"U+A748">>>>,
     <<"U+A74B", <<"U+A74A">>>>, <<"U+A74D", <<"U+A74C">>>>,
     <<"U+A74F", <<"U+A74E">>>>, <<"U+A751", <<"U+A750">>>>,
     <<"U+A753", <<"U+A752">>>>, <<"U+A755", <<"U+A754">>>>,
     <<"U+A757", <<"U+A756">>>>, <<"U+A759", <<"U+A758">>>>,
     <<"U+A75B", <<"U+A75A">>>>, <<"U+A75D", <<"U+A75C">>>>,
     <<"U+A75F", <<"U+A75E">>>>, <<"U+A761", <<"U+A760">>>>,
     <<"U+A763", <<"U+A762">>>>, <<"U+A765", <<"U+A764">>>>,
     <<"U+A767", <<"U+A766">>>>, <<"U+A769", <<"U+A768">>>>,
     <<"U+A76B", <<"U+A76A">>>>, <<"U+A76D", <<"U+A76C">>>>,
     <<"U+A76F", <<"U+A76E">>>>, <<"U+A77A", <<"U+A779">>>>,
     <<"U+A77C", <<"U+A77B">>>>, <<"U+A77F", <<"U+A77E">>>>,
     <<"U+A781", <<"U+A780">>>>, <<"U+A783", <<"U+A782">>>>,
     <<"U+A785", <<"U+A784">>>>, <<"U+A787", <<"U+A786">>>>,
     <<"U+A78C", <<"U+A78B">>>>, <<"U+A791", <<"U+A790">>>>,
     <<"U+A793", <<"U+A792">>>>, <<"U+A794", <<"U+A7C4">>>>,
     <<"U+A797", <<"U+A796">>>>, <<"U+A799", <<"U+A798">>>>,
     <<"U+A79B", <<"U+A79A">>>>, <<"U+A79D", <<"U+A79C">>>>,
     <<"U+A79F", <<"U+A79E">>>>, <<"U+A7A1", <<"U+A7A0">>>>,
     <<"U+A7A3", <<"U+A7A2">>>>, <<"U+A7A5", <<"U+A7A4">>>>,
     <<"U+A7A7", <<"U+A7A6">>>>, <<"U+A7A9", <<"U+A7A8">>>>,
     <<"U+A7B5", <<"U+A7B4">>>>, <<"U+A7B7", <<"U+A7B6">>>>,
     <<"U+A7B9", <<"U+A7B8">>>>, <<"U+A7BB", <<"U+A7BA">>>>,
     <<"U+A7BD", <<"U+A7BC">>>>, <<"U+A7BF", <<"U+A7BE">>>>,
     <<"U+A7C1", <<"U+A7C0">>>>, <<"U+A7C3", <<"U+A7C2">>>>,
     <<"U+A7C8", <<"U+A7C7">>>>, <<"U+A7CA", <<"U+A7C9">>>>,
     <<"U+A7CD", <<"U+A7CC">>>>, <<"U+A7CF", <<"U+A7CE">>>>,
     <<"U+A7D1", <<"U+A7D0">>>>, <<"U+A7D3", <<"U+A7D2">>>>,
     <<"U+A7D5", <<"U+A7D4">>>>, <<"U+A7D7", <<"U+A7D6">>>>,
     <<"U+A7D9", <<"U+A7D8">>>>, <<"U+A7DB", <<"U+A7DA">>>>,
     <<"U+A7F6", <<"U+A7F5">>>>, <<"U+AB53", <<"U+A7B3">>>>,
     <<"U+AB70", <<"U+13A0">>>>, <<"U+AB71", <<"U+13A1">>>>,
     <<"U+AB72", <<"U+13A2">>>>, <<"U+AB73", <<"U+13A3">>>>,
     <<"U+AB74", <<"U+13A4">>>>, <<"U+AB75", <<"U+13A5">>>>,
     <<"U+AB76", <<"U+13A6">>>>, <<"U+AB77", <<"U+13A7">>>>,
     <<"U+AB78", <<"U+13A8">>>>, <<"U+AB79", <<"U+13A9">>>>,
     <<"U+AB7A", <<"U+13AA">>>>, <<"U+AB7B", <<"U+13AB">>>>,
     <<"U+AB7C", <<"U+13AC">>>>, <<"U+AB7D", <<"U+13AD">>>>,
     <<"U+AB7E", <<"U+13AE">>>>, <<"U+AB7F", <<"U+13AF">>>>,
     <<"U+AB80", <<"U+13B0">>>>, <<"U+AB81", <<"U+13B1">>>>,
     <<"U+AB82", <<"U+13B2">>>>, <<"U+AB83", <<"U+13B3">>>>,
     <<"U+AB84", <<"U+13B4">>>>, <<"U+AB85", <<"U+13B5">>>>,
     <<"U+AB86", <<"U+13B6">>>>, <<"U+AB87", <<"U+13B7">>>>,
     <<"U+AB88", <<"U+13B8">>>>, <<"U+AB89", <<"U+13B9">>>>,
     <<"U+AB8A", <<"U+13BA">>>>, <<"U+AB8B", <<"U+13BB">>>>,
     <<"U+AB8C", <<"U+13BC">>>>, <<"U+AB8D", <<"U+13BD">>>>,
     <<"U+AB8E", <<"U+13BE">>>>, <<"U+AB8F", <<"U+13BF">>>>,
     <<"U+AB90", <<"U+13C0">>>>, <<"U+AB91", <<"U+13C1">>>>,
     <<"U+AB92", <<"U+13C2">>>>, <<"U+AB93", <<"U+13C3">>>>,
     <<"U+AB94", <<"U+13C4">>>>, <<"U+AB95", <<"U+13C5">>>>,
     <<"U+AB96", <<"U+13C6">>>>, <<"U+AB97", <<"U+13C7">>>>,
     <<"U+AB98", <<"U+13C8">>>>, <<"U+AB99", <<"U+13C9">>>>,
     <<"U+AB9A", <<"U+13CA">>>>, <<"U+AB9B", <<"U+13CB">>>>,
     <<"U+AB9C", <<"U+13CC">>>>, <<"U+AB9D", <<"U+13CD">>>>,
     <<"U+AB9E", <<"U+13CE">>>>, <<"U+AB9F", <<"U+13CF">>>>,
     <<"U+ABA0", <<"U+13D0">>>>, <<"U+ABA1", <<"U+13D1">>>>,
     <<"U+ABA2", <<"U+13D2">>>>, <<"U+ABA3", <<"U+13D3">>>>,
     <<"U+ABA4", <<"U+13D4">>>>, <<"U+ABA5", <<"U+13D5">>>>,
     <<"U+ABA6", <<"U+13D6">>>>, <<"U+ABA7", <<"U+13D7">>>>,
     <<"U+ABA8", <<"U+13D8">>>>, <<"U+ABA9", <<"U+13D9">>>>,
     <<"U+ABAA", <<"U+13DA">>>>, <<"U+ABAB", <<"U+13DB">>>>,
     <<"U+ABAC", <<"U+13DC">>>>, <<"U+ABAD", <<"U+13DD">>>>,
     <<"U+ABAE", <<"U+13DE">>>>, <<"U+ABAF", <<"U+13DF">>>>,
     <<"U+ABB0", <<"U+13E0">>>>, <<"U+ABB1", <<"U+13E1">>>>,
     <<"U+ABB2", <<"U+13E2">>>>, <<"U+ABB3", <<"U+13E3">>>>,
     <<"U+ABB4", <<"U+13E4">>>>, <<"U+ABB5", <<"U+13E5">>>>,
     <<"U+ABB6", <<"U+13E6">>>>, <<"U+ABB7", <<"U+13E7">>>>,
     <<"U+ABB8", <<"U+13E8">>>>, <<"U+ABB9", <<"U+13E9">>>>,
     <<"U+ABBA", <<"U+13EA">>>>, <<"U+ABBB", <<"U+13EB">>>>,
     <<"U+ABBC", <<"U+13EC">>>>, <<"U+ABBD", <<"U+13ED">>>>,
     <<"U+ABBE", <<"U+13EE">>>>, <<"U+ABBF", <<"U+13EF">>>>,
     <<"U+FB00", <<"F", "F">>>>, <<"U+FB01", <<"F", "I">>>>,
     <<"U+FB02", <<"F", "L">>>>, <<"U+FB03", <<"F", "F", "I">>>>,
     <<"U+FB04", <<"F", "F", "L">>>>, <<"U+FB05", <<"S", "T">>>>,
     <<"U+FB06", <<"S", "T">>>>, <<"U+FB13", <<"U+0544", "U+0546">>>>,
     <<"U+FB14", <<"U+0544", "U+0535">>>>,
     <<"U+FB15", <<"U+0544", "U+053B">>>>,
     <<"U+FB16", <<"U+054E", "U+0546">>>>,
     <<"U+FB17", <<"U+0544", "U+053D">>>>, <<"U+FF41", <<"U+FF21">>>>,
     <<"U+FF42", <<"U+FF22">>>>, <<"U+FF43", <<"U+FF23">>>>,
     <<"U+FF44", <<"U+FF24">>>>, <<"U+FF45", <<"U+FF25">>>>,
     <<"U+FF46", <<"U+FF26">>>>, <<"U+FF47", <<"U+FF27">>>>,
     <<"U+FF48", <<"U+FF28">>>>, <<"U+FF49", <<"U+FF29">>>>,
     <<"U+FF4A", <<"U+FF2A">>>>, <<"U+FF4B", <<"U+FF2B">>>>,
     <<"U+FF4C", <<"U+FF2C">>>>, <<"U+FF4D", <<"U+FF2D">>>>,
     <<"U+FF4E", <<"U+FF2E">>>>, <<"U+FF4F", <<"U+FF2F">>>>,
     <<"U+FF50", <<"U+FF30">>>>, <<"U+FF51", <<"U+FF31">>>>,
     <<"U+FF52", <<"U+FF32">>>>, <<"U+FF53", <<"U+FF33">>>>,
     <<"U+FF54", <<"U+FF34">>>>, <<"U+FF55", <<"U+FF35">>>>,
     <<"U+FF56", <<"U+FF36">>>>, <<"U+FF57", <<"U+FF37">>>>,
     <<"U+FF58", <<"U+FF38">>>>, <<"U+FF59", <<"U+FF39">>>>,
     <<"U+FF5A", <<"U+FF3A">>>>, <<"U+10428", <<"U+10400">>>>,
     <<"U+10429", <<"U+10401">>>>, <<"U+1042A", <<"U+10402">>>>,
     <<"U+1042B", <<"U+10403">>>>, <<"U+1042C", <<"U+10404">>>>,
     <<"U+1042D", <<"U+10405">>>>, <<"U+1042E", <<"U+10406">>>>,
     <<"U+1042F", <<"U+10407">>>>, <<"U+10430", <<"U+10408">>>>,
     <<"U+10431", <<"U+10409">>>>, <<"U+10432", <<"U+1040A">>>>,
     <<"U+10433", <<"U+1040B">>>>, <<"U+10434", <<"U+1040C">>>>,
     <<"U+10435", <<"U+1040D">>>>, <<"U+10436", <<"U+1040E">>>>,
     <<"U+10437", <<"U+1040F">>>>, <<"U+10438", <<"U+10410">>>>,
     <<"U+10439", <<"U+10411">>>>, <<"U+1043A", <<"U+10412">>>>,
     <<"U+1043B", <<"U+10413">>>>, <<"U+1043C", <<"U+10414">>>>,
     <<"U+1043D", <<"U+10415">>>>, <<"U+1043E", <<"U+10416">>>>,
     <<"U+1043F", <<"U+10417">>>>, <<"U+10440", <<"U+10418">>>>,
     <<"U+10441", <<"U+10419">>>>, <<"U+10442", <<"U+1041A">>>>,
     <<"U+10443", <<"U+1041B">>>>, <<"U+10444", <<"U+1041C">>>>,
     <<"U+10445", <<"U+1041D">>>>, <<"U+10446", <<"U+1041E">>>>,
     <<"U+10447", <<"U+1041F">>>>, <<"U+10448", <<"U+10420">>>>,
     <<"U+10449", <<"U+10421">>>>, <<"U+1044A", <<"U+10422">>>>,
     <<"U+1044B", <<"U+10423">>>>, <<"U+1044C", <<"U+10424">>>>,
     <<"U+1044D", <<"U+10425">>>>, <<"U+1044E", <<"U+10426">>>>,
     <<"U+1044F", <<"U+10427">>>>, <<"U+104D8", <<"U+104B0">>>>,
     <<"U+104D9", <<"U+104B1">>>>, <<"U+104DA", <<"U+104B2">>>>,
     <<"U+104DB", <<"U+104B3">>>>, <<"U+104DC", <<"U+104B4">>>>,
     <<"U+104DD", <<"U+104B5">>>>, <<"U+104DE", <<"U+104B6">>>>,
     <<"U+104DF", <<"U+104B7">>>>, <<"U+104E0", <<"U+104B8">>>>,
     <<"U+104E1", <<"U+104B9">>>>, <<"U+104E2", <<"U+104BA">>>>,
     <<"U+104E3", <<"U+104BB">>>>, <<"U+104E4", <<"U+104BC">>>>,
     <<"U+104E5", <<"U+104BD">>>>, <<"U+104E6", <<"U+104BE">>>>,
     <<"U+104E7", <<"U+104BF">>>>, <<"U+104E8", <<"U+104C0">>>>,
     <<"U+104E9", <<"U+104C1">>>>, <<"U+104EA", <<"U+104C2">>>>,
     <<"U+104EB", <<"U+104C3">>>>, <<"U+104EC", <<"U+104C4">>>>,
     <<"U+104ED", <<"U+104C5">>>>, <<"U+104EE", <<"U+104C6">>>>,
     <<"U+104EF", <<"U+104C7">>>>, <<"U+104F0", <<"U+104C8">>>>,
     <<"U+104F1", <<"U+104C9">>>>, <<"U+104F2", <<"U+104CA">>>>,
     <<"U+104F3", <<"U+104CB">>>>, <<"U+104F4", <<"U+104CC">>>>,
     <<"U+104F5", <<"U+104CD">>>>, <<"U+104F6", <<"U+104CE">>>>,
     <<"U+104F7", <<"U+104CF">>>>, <<"U+104F8", <<"U+104D0">>>>,
     <<"U+104F9", <<"U+104D1">>>>, <<"U+104FA", <<"U+104D2">>>>,
     <<"U+104FB", <<"U+104D3">>>>, <<"U+10597", <<"U+10570">>>>,
     <<"U+10598", <<"U+10571">>>>, <<"U+10599", <<"U+10572">>>>,
     <<"U+1059A", <<"U+10573">>>>, <<"U+1059B", <<"U+10574">>>>,
     <<"U+1059C", <<"U+10575">>>>, <<"U+1059D", <<"U+10576">>>>,
     <<"U+1059E", <<"U+10577">>>>, <<"U+1059F", <<"U+10578">>>>,
     <<"U+105A0", <<"U+10579">>>>, <<"U+105A1", <<"U+1057A">>>>,
     <<"U+105A3", <<"U+1057C">>>>, <<"U+105A4", <<"U+1057D">>>>,
     <<"U+105A5", <<"U+1057E">>>>, <<"U+105A6", <<"U+1057F">>>>,
     <<"U+105A7", <<"U+10580">>>>, <<"U+105A8", <<"U+10581">>>>,
     <<"U+105A9", <<"U+10582">>>>, <<"U+105AA", <<"U+10583">>>>,
     <<"U+105AB", <<"U+10584">>>>, <<"U+105AC", <<"U+10585">>>>,
     <<"U+105AD", <<"U+10586">>>>, <<"U+105AE", <<"U+10587">>>>,
     <<"U+105AF", <<"U+10588">>>>, <<"U+105B0", <<"U+10589">>>>,
     <<"U+105B1", <<"U+1058A">>>>, <<"U+105B3", <<"U+1058C">>>>,
     <<"U+105B4", <<"U+1058D">>>>, <<"U+105B5", <<"U+1058E">>>>,
     <<"U+105B6", <<"U+1058F">>>>, <<"U+105B7", <<"U+10590">>>>,
     <<"U+105B8", <<"U+10591">>>>, <<"U+105B9", <<"U+10592">>>>,
     <<"U+105BB", <<"U+10594">>>>, <<"U+105BC", <<"U+10595">>>>,
     <<"U+10CC0", <<"U+10C80">>>>, <<"U+10CC1", <<"U+10C81">>>>,
     <<"U+10CC2", <<"U+10C82">>>>, <<"U+10CC3", <<"U+10C83">>>>,
     <<"U+10CC4", <<"U+10C84">>>>, <<"U+10CC5", <<"U+10C85">>>>,
     <<"U+10CC6", <<"U+10C86">>>>, <<"U+10CC7", <<"U+10C87">>>>,
     <<"U+10CC8", <<"U+10C88">>>>, <<"U+10CC9", <<"U+10C89">>>>,
     <<"U+10CCA", <<"U+10C8A">>>>, <<"U+10CCB", <<"U+10C8B">>>>,
     <<"U+10CCC", <<"U+10C8C">>>>, <<"U+10CCD", <<"U+10C8D">>>>,
     <<"U+10CCE", <<"U+10C8E">>>>, <<"U+10CCF", <<"U+10C8F">>>>,
     <<"U+10CD0", <<"U+10C90">>>>, <<"U+10CD1", <<"U+10C91">>>>,
     <<"U+10CD2", <<"U+10C92">>>>, <<"U+10CD3", <<"U+10C93">>>>,
     <<"U+10CD4", <<"U+10C94">>>>, <<"U+10CD5", <<"U+10C95">>>>,
     <<"U+10CD6", <<"U+10C96">>>>, <<"U+10CD7", <<"U+10C97">>>>,
     <<"U+10CD8", <<"U+10C98">>>>, <<"U+10CD9", <<"U+10C99">>>>,
     <<"U+10CDA", <<"U+10C9A">>>>, <<"U+10CDB", <<"U+10C9B">>>>,
     <<"U+10CDC", <<"U+10C9C">>>>, <<"U+10CDD", <<"U+10C9D">>>>,
     <<"U+10CDE", <<"U+10C9E">>>>, <<"U+10CDF", <<"U+10C9F">>>>,
     <<"U+10CE0", <<"U+10CA0">>>>, <<"U+10CE1", <<"U+10CA1">>>>,
     <<"U+10CE2", <<"U+10CA2">>>>, <<"U+10CE3", <<"U+10CA3">>>>,
     <<"U+10CE4", <<"U+10CA4">>>>, <<"U+10CE5", <<"U+10CA5">>>>,
     <<"U+10CE6", <<"U+10CA6">>>>, <<"U+10CE7", <<"U+10CA7">>>>,
     <<"U+10CE8", <<"U+10CA8">>>>, <<"U+10CE9", <<"U+10CA9">>>>,
     <<"U+10CEA", <<"U+10CAA">>>>, <<"U+10CEB", <<"U+10CAB">>>>,
     <<"U+10CEC", <<"U+10CAC">>>>, <<"U+10CED", <<"U+10CAD">>>>,
     <<"U+10CEE", <<"U+10CAE">>>>, <<"U+10CEF", <<"U+10CAF">>>>,
     <<"U+10CF0", <<"U+10CB0">>>>, <<"U+10CF1", <<"U+10CB1">>>>,
     <<"U+10CF2", <<"U+10CB2">>>>, <<"U+10D70", <<"U+10D50">>>>,
     <<"U+10D71", <<"U+10D51">>>>, <<"U+10D72", <<"U+10D52">>>>,
     <<"U+10D73", <<"U+10D53">>>>, <<"U+10D74", <<"U+10D54">>>>,
     <<"U+10D75", <<"U+10D55">>>>, <<"U+10D76", <<"U+10D56">>>>,
     <<"U+10D77", <<"U+10D57">>>>, <<"U+10D78", <<"U+10D58">>>>,
     <<"U+10D79", <<"U+10D59">>>>, <<"U+10D7A", <<"U+10D5A">>>>,
     <<"U+10D7B", <<"U+10D5B">>>>, <<"U+10D7C", <<"U+10D5C">>>>,
     <<"U+10D7D", <<"U+10D5D">>>>, <<"U+10D7E", <<"U+10D5E">>>>,
     <<"U+10D7F", <<"U+10D5F">>>>, <<"U+10D80", <<"U+10D60">>>>,
     <<"U+10D81", <<"U+10D61">>>>, <<"U+10D82", <<"U+10D62">>>>,
     <<"U+10D83", <<"U+10D63">>>>, <<"U+10D84", <<"U+10D64">>>>,
     <<"U+10D85", <<"U+10D65">>>>, <<"U+118C0", <<"U+118A0">>>>,
     <<"U+118C1", <<"U+118A1">>>>, <<"U+118C2", <<"U+118A2">>>>,
     <<"U+118C3", <<"U+118A3">>>>, <<"U+118C4", <<"U+118A4">>>>,
     <<"U+118C5", <<"U+118A5">>>>, <<"U+118C6", <<"U+118A6">>>>,
     <<"U+118C7", <<"U+118A7">>>>, <<"U+118C8", <<"U+118A8">>>>,
     <<"U+118C9", <<"U+118A9">>>>, <<"U+118CA", <<"U+118AA">>>>,
     <<"U+118CB", <<"U+118AB">>>>, <<"U+118CC", <<"U+118AC">>>>,
     <<"U+118CD", <<"U+118AD">>>>, <<"U+118CE", <<"U+118AE">>>>,
     <<"U+118CF", <<"U+118AF">>>>, <<"U+118D0", <<"U+118B0">>>>,
     <<"U+118D1", <<"U+118B1">>>>, <<"U+118D2", <<"U+118B2">>>>,
     <<"U+118D3", <<"U+118B3">>>>, <<"U+118D4", <<"U+118B4">>>>,
     <<"U+118D5", <<"U+118B5">>>>, <<"U+118D6", <<"U+118B6">>>>,
     <<"U+118D7", <<"U+118B7">>>>, <<"U+118D8", <<"U+118B8">>>>,
     <<"U+118D9", <<"U+118B9">>>>, <<"U+118DA", <<"U+118BA">>>>,
     <<"U+118DB", <<"U+118BB">>>>, <<"U+118DC", <<"U+118BC">>>>,
     <<"U+118DD", <<"U+118BD">>>>, <<"U+118DE", <<"U+118BE">>>>,
     <<"U+118DF", <<"U+118BF">>>>, <<"U+16E60", <<"U+16E40">>>>,
     <<"U+16E61", <<"U+16E41">>>>, <<"U+16E62", <<"U+16E42">>>>,
     <<"U+16E63", <<"U+16E43">>>>, <<"U+16E64", <<"U+16E44">>>>,
     <<"U+16E65", <<"U+16E45">>>>, <<"U+16E66", <<"U+16E46">>>>,
     <<"U+16E67", <<"U+16E47">>>>, <<"U+16E68", <<"U+16E48">>>>,
     <<"U+16E69", <<"U+16E49">>>>, <<"U+16E6A", <<"U+16E4A">>>>,
     <<"U+16E6B", <<"U+16E4B">>>>, <<"U+16E6C", <<"U+16E4C">>>>,
     <<"U+16E6D", <<"U+16E4D">>>>, <<"U+16E6E", <<"U+16E4E">>>>,
     <<"U+16E6F", <<"U+16E4F">>>>, <<"U+16E70", <<"U+16E50">>>>,
     <<"U+16E71", <<"U+16E51">>>>, <<"U+16E72", <<"U+16E52">>>>,
     <<"U+16E73", <<"U+16E53">>>>, <<"U+16E74", <<"U+16E54">>>>,
     <<"U+16E75", <<"U+16E55">>>>, <<"U+16E76", <<"U+16E56">>>>,
     <<"U+16E77", <<"U+16E57">>>>, <<"U+16E78", <<"U+16E58">>>>,
     <<"U+16E79", <<"U+16E59">>>>, <<"U+16E7A", <<"U+16E5A">>>>,
     <<"U+16E7B", <<"U+16E5B">>>>, <<"U+16E7C", <<"U+16E5C">>>>,
     <<"U+16E7D", <<"U+16E5D">>>>, <<"U+16E7E", <<"U+16E5E">>>>,
     <<"U+16E7F", <<"U+16E5F">>>>, <<"U+16EBB", <<"U+16EA0">>>>,
     <<"U+16EBC", <<"U+16EA1">>>>, <<"U+16EBD", <<"U+16EA2">>>>,
     <<"U+16EBE", <<"U+16EA3">>>>, <<"U+16EBF", <<"U+16EA4">>>>,
     <<"U+16EC0", <<"U+16EA5">>>>, <<"U+16EC1", <<"U+16EA6">>>>,
     <<"U+16EC2", <<"U+16EA7">>>>, <<"U+16EC3", <<"U+16EA8">>>>,
     <<"U+16EC4", <<"U+16EA9">>>>, <<"U+16EC5", <<"U+16EAA">>>>,
     <<"U+16EC6", <<"U+16EAB">>>>, <<"U+16EC7", <<"U+16EAC">>>>,
     <<"U+16EC8", <<"U+16EAD">>>>, <<"U+16EC9", <<"U+16EAE">>>>,
     <<"U+16ECA", <<"U+16EAF">>>>, <<"U+16ECB", <<"U+16EB0">>>>,
     <<"U+16ECC", <<"U+16EB1">>>>, <<"U+16ECD", <<"U+16EB2">>>>,
     <<"U+16ECE", <<"U+16EB3">>>>, <<"U+16ECF", <<"U+16EB4">>>>,
     <<"U+16ED0", <<"U+16EB5">>>>, <<"U+16ED1", <<"U+16EB6">>>>,
     <<"U+16ED2", <<"U+16EB7">>>>, <<"U+16ED3", <<"U+16EB8">>>>,
     <<"U+1E922", <<"U+1E900">>>>, <<"U+1E923", <<"U+1E901">>>>,
     <<"U+1E924", <<"U+1E902">>>>, <<"U+1E925", <<"U+1E903">>>>,
     <<"U+1E926", <<"U+1E904">>>>, <<"U+1E927", <<"U+1E905">>>>,
     <<"U+1E928", <<"U+1E906">>>>, <<"U+1E929", <<"U+1E907">>>>,
     <<"U+1E92A", <<"U+1E908">>>>, <<"U+1E92B", <<"U+1E909">>>>,
     <<"U+1E92C", <<"U+1E90A">>>>, <<"U+1E92D", <<"U+1E90B">>>>,
     <<"U+1E92E", <<"U+1E90C">>>>, <<"U+1E92F", <<"U+1E90D">>>>,
     <<"U+1E930", <<"U+1E90E">>>>, <<"U+1E931", <<"U+1E90F">>>>,
     <<"U+1E932", <<"U+1E910">>>>, <<"U+1E933", <<"U+1E911">>>>,
     <<"U+1E934", <<"U+1E912">>>>, <<"U+1E935", <<"U+1E913">>>>,
     <<"U+1E936", <<"U+1E914">>>>, <<"U+1E937", <<"U+1E915">>>>,
     <<"U+1E938", <<"U+1E916">>>>, <<"U+1E939", <<"U+1E917">>>>,
     <<"U+1E93A", <<"U+1E918">>>>, <<"U+1E93B", <<"U+1E919">>>>,
     <<"U+1E93C", <<"U+1E91A">>>>, <<"U+1E93D", <<"U+1E91B">>>>,
     <<"U+1E93E", <<"U+1E91C">>>>, <<"U+1E93F", <<"U+1E91D">>>>,
     <<"U+1E940", <<"U+1E91E">>>>, <<"U+1E941", <<"U+1E91F">>>>,
     <<"U+1E942", <<"U+1E920">>>>, <<"U+1E943", <<"U+1E921">>>> >>

UpperCaseIndex(c) ==
    CHOOSE i \in DOMAIN UpperCasePairs : UpperCasePairs[i][1] = c

UpperCaseMap ==
    [c \in {UpperCasePairs[i][1] : i \in DOMAIN UpperCasePairs} |->
        UpperCasePairs[UpperCaseIndex(c)][2]]

\* the upper case of one character: one to three characters
UpperChar(c) == IF c \in DOMAIN UpperCaseMap THEN UpperCaseMap[c] ELSE <<c>>

\* String.prototype.toUpperCase
ToUpperCase(s) == Concat([i \in 1..Len(s) |-> UpperChar(s[i])])

\* the positions of s, in order, that hold no whitespace
NonSpaceIndices(s) ==
    LET NonSpace(i) == s[i] \notin WhiteSpace
    IN  SelectSeq(Indices(s), NonSpace)

\* s from the first to the last of the positions ix, nothing when ix is empty
Between(s, ix, toEnd) ==
    IF ix = <<>> THEN <<>>
    ELSE SubSeq(s, ix[1], IF toEnd THEN Len(s) ELSE ix[Len(ix)])

\* what is left of s from its first character that is not whitespace
TrimStart(s) == Between(s, NonSpaceIndices(s), TRUE)

\* String.prototype.trim
Trim(s) == Between(s, NonSpaceIndices(s), FALSE)

\* the pieces of s between the positions at, the characters there left out
PiecesBetween(s, at) ==
    [j \in 1..(Len(at) + 1) |->
        SubSeq(s, IF j = 1 THEN 1 ELSE at[j - 1] + 1,
                  IF j = Len(at) + 1 THEN Len(s) ELSE at[j] - 1)]

\* String.prototype.split(sep) for a one-character separator: the pieces
\* between the separators, empty pieces included; "" gives [""]
SplitChar(s, sep) ==
    LET IsSep(i) == s[i] = sep
    IN  PiecesBetween(s, SelectSeq(Indices(s), IsSep))

\* Array.prototype.join(sep) for a one-character separator
JoinChar(parts, sep) ==
    Concat([i \in 1..Len(parts) |->
                IF i = 1 THEN parts[i] ELSE <<sep>> \o parts[i]])

\* the pieces of s from each position of starts to the matching one of ends
Runs(s, starts, ends) == [j \in 1..Len(starts) |-> SubSeq(s, starts[j], ends[j])]

\* String.prototype.split(/\s+/): the maximal runs of characters that are not
\* whitespace, with an empty piece before a leading and after a trailing run
\* of whitespace; "" gives [""]
SplitWhiteSpace(s) ==
    LET IsStart(i) == s[i] \notin WhiteSpace /\ (i = 1 \/ s[i - 1] \in WhiteSpace)
        IsEnd(i) == s[i] \notin WhiteSpace /\ (i = Len(s) \/ s[i + 1] \in WhiteSpace)
        edge(i) == IF s[i] \in WhiteSpace THEN << <<>> >> ELSE <<>>
    IN  IF s = <<>> THEN << <<>> >>
        ELSE edge(1)
             \o Runs(s, SelectSeq(Indices(s), IsStart), SelectSeq(Indices(s), IsEnd))
             \o edge(Len(s))

\* const splitLine = (line) => line.trim().split(/\s+/)
splitLine(line) == SplitWhiteSpace(Trim(line))

\* lineParts[i] of JavaScript (0-based): undefined past the end
HasPart(parts, i) == i + 1 <= Len(parts)

Part(parts, i) == parts[i + 1]

(***************************************************************************)
(* Numbers.  A Number of JavaScript is an IEEE 754 binary64; it is held    *)
(* here as the decimal that Number::toString prints for it, the shortest   *)
(* that reads back as the same double: digits * 10^exp with digits a       *)
(* sequence of 0..9 without leading or trailing zeros, empty for zero.     *)
(***************************************************************************)
(***************************************************************************)
(* Decimal digit strings: sequences of 0..9, most significant digit first  *)
(***************************************************************************)
Zeros(n) == [i \in 1..n |-> 0]

\* the positions of d, in order, that hold a digit other than 0
NonZeroIndices(d) ==
    LET NonZero(i) == d[i] # 0
    IN  SelectSeq(Indices(d), NonZero)

StripLeftAt(d, nz) == IF nz = <<>> THEN <<>> ELSE SubSeq(d, nz[1], Len(d))

\* d without its leading zeros
StripLeft(d) == StripLeftAt(d, NonZeroIndices(d))

StripRightAt(d, nz) == IF nz = <<>> THEN <<>> ELSE SubSeq(d, 1, nz[Len(nz)])

\* d without its trailing zeros
StripRight(d) == StripRightAt(d, NonZeroIndices(d))

\* the number of trailing zeros of d, d not all zeros
TrailingZeros(d) == Len(d) - Len(StripRight(d))

PadLeft(d, n) == Zeros(n - Len(d)) \o d

\* floor(d / 2), digit by digit: the carry into a digit is the parity of
\* the digit before it
Halve(d) ==
    [i \in 1..Len(d) |->
        (d[i] + 10 * (IF i > 1 THEN d[i - 1] % 2 ELSE 0)) \div 2]

\* 2 * d, one digit longer: the carry out of a digit is 1 iff it is >= 5
Twice(d) ==
    [i \in 1..(Len(d) + 1) |->
        (IF i > 1 THEN ((2 * d[i - 1]) % 10) ELSE 0)
        + (IF i <= Len(d) /\ d[i] >= 5 THEN 1 ELSE 0)]

\* the fraction 0.f doubled, without the unit it carries out
TwiceFrac(f) ==
    [i \in 1..Len(f) |->
        ((2 * f[i]) % 10) + (IF i < Len(f) /\ f[i + 1] >= 5 THEN 1 ELSE 0)]

\* -1, 0, 1 as a is less than, equal to, greater than b; a and b of one length
FirstDifference(a, b) ==
    LET Differs(i) == a[i] # b[i]
    IN  SelectSeq(Indices(a), Differs)

CompareAt(a, b, diff) ==
    IF diff = <<>> THEN 0 ELSE IF a[diff[1]] < b[diff[1]] THEN -1 ELSE 1

CompareAligned(a, b) == CompareAt(a, b, FirstDifference(a, b))

\* the same for digit strings without leading zeros
Compare(a, b) ==
    IF Len(a) < Len(b) THEN -1
    ELSE IF Len(a) > Len(b) THEN 1
    ELSE CompareAligned(a, b)

\* the carry into position i of the digit sums s: the nearest later position
\* whose sum is not 9 decides it
CarryInto(s, i) ==
    LET Decides(j) == j > i /\ s[j] # 9
        later == SelectSeq(Indices(s), Decides)
    IN  IF later # <<>> /\ s[later[1]] >= 10 THEN 1 ELSE 0

SumDigits(s) == [i \in 1..Len(s) |-> (s[i] + CarryInto(s, i)) % 10]

AddAligned(a, b) == SumDigits([i \in 1..Len(a) |-> a[i] + b[i]])

\* a + b
Add(a, b) ==
    IF Len(a) >= Len(b)
    THEN StripLeft(AddAligned(PadLeft(a, Len(a) + 1), PadLeft(b, Len(a) + 1)))
    ELSE StripLeft(AddAligned(PadLeft(a, Len(b) + 1), PadLeft(b, Len(b) + 1)))

\* the borrow from position i of the digit differences s: the nearest later
\* position whose difference is not 0 decides it
BorrowFrom(s, i) ==
    LET Decides(j) == j > i /\ s[j] # 0
        later == SelectSeq(Indices(s), Decides)
    IN  IF later # <<>> /\ s[later[1]] < 0 THEN 1 ELSE 0

DifferenceDigits(s) == [i \in 1..Len(s) |-> (s[i] - BorrowFrom(s, i)) % 10]

\* a - b for a >= b
Subtract(a, b) ==
    StripLeft(DifferenceDigits([i \in 1..Len(a) |-> a[i] - PadLeft(b, Len(a))[i]]))

\* the digits of a natural number
RECURSIVE NatDigits(_)
NatDigits(n) == IF n = 0 THEN <<>> ELSE Append(NatDigits(n \div 10), n % 10)

\* the natural number of at most 9 digits
RECURSIVE DigitsNat(_)
DigitsNat(d) ==
    IF d = <<>> THEN 0 ELSE 10 * DigitsNat(Take(d, Len(d) - 1)) + d[Len(d)]

(***************************************************************************)
(* Binary digit strings: sequences of 0..1, most significant bit first     *)
(***************************************************************************)
\* one step of the conversion of a natural number to binary: its last bit
\* is its parity, the other bits are those of its half
HalveStep(s) ==
    [d |-> StripLeft(Halve(s.d)), bits |-> <<s.d[Len(s.d)] % 2>> \o s.bits]

\* 2^k steps, or as many as it takes: the depth of the recursion is k
RECURSIVE HalveSteps(_, _)
HalveSteps(s, k) ==
    IF s.d = <<>> THEN s
    ELSE IF k = 0 THEN HalveStep(s)
    ELSE HalveSteps(HalveSteps(s, k - 1), k - 1)

\* a conversion takes one step per bit, and no double has bits beyond
\* 2^1024 or below 2^-1075: 2^12 steps are more than any conversion takes
MaxBitSteps == 12

\* the bits of the natural number d, none for 0
BitsOfDigits(d) == HalveSteps([d |-> d, bits |-> <<>>], MaxBitSteps).bits

\* the digits of 2 * d + bit
AppendBit(d, bit) == StripLeft([Twice(d) EXCEPT ![Len(d) + 1] = @ + bit])

BitStep(s) == [d |-> AppendBit(s.d, s.bits[1]), bits |-> Tail(s.bits)]

RECURSIVE BitSteps(_, _)
BitSteps(s, k) ==
    IF s.bits = <<>> THEN s
    ELSE IF k = 0 THEN BitStep(s)
    ELSE BitSteps(BitSteps(s, k - 1), k - 1)

\* the digits of the natural number of the bits
DigitsOfBits(bits) == BitSteps([d |-> <<>>, bits |-> bits], MaxBitSteps).d

\* the digits of d * c from digit i of d down, carry being what the digits
\* after it carry out and low the digits of the product found so far
RECURSIVE TimesFrom(_, _, _, _, _)
TimesFrom(d, c, i, carry, low) ==
    IF i = 0 THEN NatDigits(carry) \o low
    ELSE TimesFrom(d, c, i - 1, (d[i] * c + carry) \div 10,
                   <<(d[i] * c + carry) % 10>> \o low)

\* d * c for a natural number c of at most eight digits
Times(d, c) == StripLeft(TimesFrom(d, c, Len(d), 0, <<>>))

OneIndices(bits) ==
    LET One(i) == bits[i] = 1
    IN  SelectSeq(Indices(bits), One)

ZeroIndices(bits) ==
    LET Zero(i) == bits[i] = 0
    IN  SelectSeq(Indices(bits), Zero)

IncrementAt(bits, zeros) ==
    IF zeros = <<>> THEN <<1>> \o Zeros(Len(bits))
    ELSE Take(bits, zeros[Len(zeros)] - 1) \o <<1>>
            \o Zeros(Len(bits) - zeros[Len(zeros)])

\* bits + 1, one bit longer when the bits are all 1
Increment(bits) == IncrementAt(bits, ZeroIndices(bits))

DecrementAt(bits, ones) ==
    Take(bits, ones[Len(ones)] - 1) \o <<0>>
        \o [i \in 1..(Len(bits) - ones[Len(ones)]) |-> 1]

\* bits - 1 in as many bits, bits not zero
Decrement(bits) == DecrementAt(bits, OneIndices(bits))

(***************************************************************************)
(* IEEE 754 binary64: a finite double is bits * 2^e, at most 53 bits from  *)
(* its first 1 to its last, the last bit at 2^-1074 or above, the first    *)
(* below 2^1024                                                            *)
(***************************************************************************)
MantissaBits == 53

MinExponent == -1074

MaxExponent == 1024

Max(a, b) == IF a >= b THEN a ELSE b

Min(a, b) == IF a <= b THEN a ELSE b

BinaryZero == [inf |-> FALSE, bits |-> <<>>, e |-> 0]

BinaryInfinity == [inf |-> TRUE, bits |-> <<>>, e |-> 0]

\* bits * 2^e without the trailing zeros of bits
BinaryAt(bits, e, ones) ==
    IF ones = <<>> THEN BinaryZero
    ELSE IF e + Len(bits) - 1 >= MaxExponent THEN BinaryInfinity
    ELSE [inf |-> FALSE,
          bits |-> SubSeq(bits, ones[1], ones[Len(ones)]),
          e |-> e + Len(bits) - ones[Len(ones)]]

Binary(bits, e) == BinaryAt(bits, e, OneIndices(bits))

\* round to nearest, ties to even: mant * 2^lsb is what is kept, round the
\* bit below it, sticky whether anything is set below that
RoundMantissa(mant, lsb, round, sticky) ==
    IF round = 1 /\ (sticky \/ (mant # <<>> /\ mant[Len(mant)] = 1))
    THEN Binary(Increment(mant), lsb)
    ELSE Binary(mant, lsb)

RoundCount(bits, lsb, count, rest) ==
    RoundMantissa(
        IF Len(bits) >= count THEN Take(bits, count)
        ELSE bits \o Zeros(count - Len(bits)),
        lsb,
        IF Len(bits) > count THEN bits[count + 1] ELSE 0,
        rest \/ \E i \in (count + 2)..Len(bits) : bits[i] = 1)

RoundAt(bits, msb, lsb, rest) ==
    RoundCount(bits, lsb, Max(0, msb - lsb + 1), rest)

\* the double nearest to the number whose binary expansion starts with bits
\* (the first a 1, the last at position pos); rest tells whether the expansion
\* goes on with a bit that is set
RoundBits(bits, pos, rest) ==
    IF bits = <<>> THEN BinaryZero
    ELSE IF pos + Len(bits) - 1 >= MaxExponent THEN BinaryInfinity
    ELSE RoundAt(bits, pos + Len(bits) - 1,
                 Max(pos + Len(bits) - MantissaBits, MinExponent), rest)

IsZero(d) == \A i \in 1..Len(d) : d[i] = 0

\* one step of the conversion of a fraction to binary: the next bit is the
\* unit that doubling the fraction carries out
FractionStep(s) ==
    [f |-> TwiceFrac(s.f),
     bits |-> IF s.bits = <<>> /\ s.f[1] < 5 THEN <<>>
              ELSE Append(s.bits, IF s.f[1] >= 5 THEN 1 ELSE 0),
     pos |-> s.pos - 1]

\* bits are needed up to the one below the last bit of the mantissa
FractionDone(s) ==
    \/ IsZero(s.f)
    \/ Len(s.bits) >= MantissaBits + 1
    \/ s.pos <= MinExponent - 1

RECURSIVE FractionSteps(_, _)
FractionSteps(s, k) ==
    IF FractionDone(s) THEN s
    ELSE IF k = 0 THEN FractionStep(s)
    ELSE FractionSteps(FractionSteps(s, k - 1), k - 1)

RoundExpansion(s) == RoundBits(s.bits, s.pos, ~IsZero(s.f))

\* the double nearest to int + 0.frac
RoundDigits(int, frac) ==
    RoundExpansion(FractionSteps([f |-> frac, bits |-> BitsOfDigits(int), pos |-> 0],
                                 MaxBitSteps))

\* the digits before the point of d * 10^exp
IntegerDigits(d, exp) ==
    IF exp >= 0 THEN d \o Zeros(exp)
    ELSE IF Len(d) + exp > 0 THEN Take(d, Len(d) + exp)
    ELSE <<>>

\* the digits after the point of d * 10^exp
FractionDigits(d, exp) ==
    IF exp >= 0 THEN <<>>
    ELSE IF Len(d) + exp > 0 THEN Drop(d, Len(d) + exp)
    ELSE Zeros(-(Len(d) + exp)) \o d

\* the double nearest to d * 10^exp, d without leading zeros
DecimalToBinary(d, exp) ==
    RoundDigits(StripLeft(IntegerDigits(d, exp)), FractionDigits(d, exp))

(***************************************************************************)
(* The decimal of a double: exactly, and the shortest that reads back as   *)
(* the double (Number::toString)                                           *)
(***************************************************************************)
TwiceStep(s) == [d |-> StripLeft(Twice(s.d)), exp |-> s.exp, n |-> s.n - 1]

HalfStep(s) ==
    IF s.d[Len(s.d)] % 2 = 1
    THEN [d |-> StripLeft(Halve(Append(s.d, 0))), exp |-> s.exp - 1, n |-> s.n - 1]
    ELSE [d |-> StripLeft(Halve(s.d)), exp |-> s.exp, n |-> s.n - 1]

RECURSIVE TwiceSteps(_, _)
TwiceSteps(s, k) ==
    IF s.n = 0 \/ s.d = <<>> THEN s
    ELSE IF k = 0 THEN TwiceStep(s)
    ELSE TwiceSteps(TwiceSteps(s, k - 1), k - 1)

RECURSIVE HalfSteps(_, _)
HalfSteps(s, k) ==
    IF s.n = 0 \/ s.d = <<>> THEN s
    ELSE IF k = 0 THEN HalfStep(s)
    ELSE HalfSteps(HalfSteps(s, k - 1), k - 1)

\* d * 2^t exactly, as digits and a power of ten
ScaleDigits(d, t) ==
    IF t >= 0 THEN TwiceSteps([d |-> d, exp |-> 0, n |-> t], MaxBitSteps)
    ELSE HalfSteps([d |-> d, exp |-> 0, n |-> -t], MaxBitSteps)

\* bits * 2^t exactly
ExactDecimal(bits, t) == ScaleDigits(DigitsOfBits(bits), t)

\* the digits of x at the power of ten exp <= x.exp, in n digits
AlignDigits(x, exp, n) == PadLeft(x.d \o Zeros(x.exp - exp), n)

\* d with nothing after position j
FloorAt(d, j) == [i \in 1..Len(d) |-> IF i <= j THEN d[i] ELSE 0]

NonNineIndices(d, j) ==
    LET NonNine(i) == i <= j /\ d[i] # 9
    IN  SelectSeq(Indices(d), NonNine)

CeilingFrom(d, j, z) ==
    [i \in 1..Len(d) |-> IF i < z THEN d[i] ELSE IF i = z THEN d[i] + 1 ELSE 0]

\* the next multiple of the unit of position j above FloorAt(d, j)
CeilingAt(d, j) == CeilingFrom(d, j, NonNineIndices(d, j)[Len(NonNineIndices(d, j))])

\* c reads back as the double: it lies between the midpoints low and high to
\* the neighbours of the double, which themselves read back as the double
\* iff its mantissa is even
Within(c, low, high, even) ==
    /\ CompareAligned(low, c) < (IF even THEN 1 ELSE 0)
    /\ CompareAligned(c, high) < (IF even THEN 1 ELSE 0)

\* of the multiples of the unit of position j next to v the one nearer to v,
\* the even one when they are as near
Nearest(v, j, toHalf) ==
    IF toHalf < 0 \/ (toHalf = 0 /\ v[j] % 2 = 0) THEN FloorAt(v, j) ELSE CeilingAt(v, j)

NearestWithin(v, low, high, even, j) ==
    IF ~Within(CeilingAt(v, j), low, high, even) THEN FloorAt(v, j)
    ELSE IF ~Within(FloorAt(v, j), low, high, even) THEN CeilingAt(v, j)
    ELSE Nearest(v, j, CompareAligned(Drop(v, j), <<5>> \o Zeros(Len(v) - j - 1)))

\* the shortest decimal within the midpoints and of those the nearest to v:
\* the first position j at which a multiple of its unit lies within
RECURSIVE ShortestFrom(_, _, _, _, _)
ShortestFrom(v, low, high, even, j) ==
    IF j = Len(v)
        \/ Within(FloorAt(v, j), low, high, even)
        \/ Within(CeilingAt(v, j), low, high, even)
    THEN [d |-> Take(NearestWithin(v, low, high, even, j), j), j |-> j]
    ELSE ShortestFrom(v, low, high, even, j + 1)

ShortestDecimalOf(found, exp, n) ==
    [d |-> StripRight(StripLeft(found.d)),
     exp |-> exp + (n - found.j) + TrailingZeros(found.d)]

ShortestAligned(v, low, high, even, exp, n) ==
    ShortestDecimalOf(
        ShortestFrom(AlignDigits(v, exp, n), AlignDigits(low, exp, n),
                     AlignDigits(high, exp, n), even, 1),
        exp, n)

ShortestAt(v, low, high, even, exp) ==
    ShortestAligned(v, low, high, even, exp, Len(high.d) + (high.exp - exp) + 1)

ShortestBetween(v, low, high, even) ==
    ShortestAt(v, low, high, even, Min(v.exp, Min(low.exp, high.exp)))

\* mant * 2^lsb, mant the whole mantissa: the midpoints are a half of the
\* last bit away, the lower one a quarter when the double is a power of two
\* whose lower neighbour is the nearer one
ShortestOfMantissa(mant, lsb, narrow) ==
    ShortestBetween(
        ExactDecimal(mant \o <<0, 0>>, lsb - 2),
        ExactDecimal(Decrement(mant) \o (IF narrow THEN <<1, 1>> ELSE <<1, 0>>), lsb - 2),
        ExactDecimal(mant \o <<1, 0>>, lsb - 2),
        mant[Len(mant)] = 0)

ShortestOfBinaryAt(b, lsb) ==
    ShortestOfMantissa(b.bits \o Zeros(b.e - lsb), lsb,
                       b.bits = <<1>> /\ lsb > MinExponent)

\* the shortest decimal of a finite double other than 0
ShortestOfBinary(b) ==
    ShortestOfBinaryAt(b, Max(b.e + Len(b.bits) - MantissaBits, MinExponent))

(***************************************************************************)
(* Number values                                                           *)
(***************************************************************************)
NaN == [nan |-> TRUE, inf |-> FALSE, neg |-> FALSE, digits |-> <<>>, exp |-> 0]

Infinity(neg) == [nan |-> FALSE, inf |-> TRUE, neg |-> neg, digits |-> <<>>, exp |-> 0]

\* +0 and -0
Zero(neg) == [nan |-> FALSE, inf |-> FALSE, neg |-> neg, digits |-> <<>>, exp |-> 0]

Finite(neg, d, exp) ==
    [nan |-> FALSE, inf |-> FALSE, neg |-> neg, digits |-> d, exp |-> exp]

IsFinite(x) == ~x.nan /\ ~x.inf

NumberOfShortest(neg, s) == Finite(neg, s.d, s.exp)

\* the Number of a double given in binary
NumberOfBinary(neg, b) ==
    IF b.inf THEN Infinity(neg)
    ELSE IF b.bits = <<>> THEN Zero(neg)
    ELSE NumberOfShortest(neg, ShortestOfBinary(b))

\* a decimal of 10^310 or more is beyond the largest double, 1.8 * 10^308
InfinityDigits == 309

\* a decimal below 10^-324 is less than half the least double, 4.9 * 10^-324
ZeroDigits == -323

\* a decimal of at most 15 digits between 10^-291 and 10^290 is the shortest
\* decimal of the double nearest to it
MaxExactDigits == 15

MaxExactExponent == 290

\* d * 10^exp for d without leading or trailing zeros, not empty
NumberOfStripped(neg, d, exp) ==
    IF Len(d) + exp > InfinityDigits THEN Infinity(neg)
    ELSE IF Len(d) + exp < ZeroDigits THEN Zero(neg)
    ELSE IF /\ Len(d) <= MaxExactDigits
            /\ Len(d) + exp >= -MaxExactExponent
            /\ Len(d) + exp <= MaxExactExponent
    THEN Finite(neg, d, exp)
    ELSE NumberOfBinary(neg, DecimalToBinary(d, exp))

\* the double nearest to the decimal d * 10^exp, ties to even
NumberOfDecimal(neg, d, exp) ==
    IF IsZero(d) THEN Zero(neg)
    ELSE NumberOfStripped(neg, StripRight(StripLeft(d)),
                          exp + TrailingZeros(StripLeft(d)))

\* the Number of an integer of the model
FromInt(n) ==
    IF n < 0 THEN NumberOfDecimal(TRUE, NatDigits(-n), 0)
    ELSE NumberOfDecimal(FALSE, NatDigits(n), 0)

\* x is an integer of less than ten digits
IsSmallInteger(x) == IsFinite(x) /\ x.exp >= 0 /\ Len(x.digits) + x.exp <= 9

\* the integer of the model that is x, x such an integer
IntOf(x) ==
    IF x.neg THEN -DigitsNat(x.digits \o Zeros(x.exp))
    ELSE DigitsNat(x.digits \o Zeros(x.exp))

\* the digits of the integer b, a double in binary
ExactOfBinary(b) == ExactDecimal(b.bits, b.e).d

\* the digits of |x| for a finite integer x: those of its decimal when they
\* are few enough to be exact, those of the double otherwise
ExactDigits(x) ==
    IF x.digits = <<>> THEN <<>>
    ELSE IF Len(x.digits) + x.exp <= MaxExactDigits THEN x.digits \o Zeros(x.exp)
    ELSE ExactOfBinary(DecimalToBinary(x.digits, x.exp))

\* x === y of two Numbers
StrictEquals(x, y) ==
    /\ ~x.nan
    /\ ~y.nan
    /\ x.inf = y.inf
    /\ x.digits = y.digits
    /\ x.exp = y.exp
    /\ (x.neg = y.neg \/ (IsFinite(x) /\ x.digits = <<>>))

(***************************************************************************)
(* Number.parseInt and Number.parseFloat                                   *)
(***************************************************************************)
\* the positions of s, in order, that hold no digit of the radix
NonDigitIndices(s, radix) ==
    LET NonDigit(i) == ~(IF radix = 16 THEN IsHexDigit(s[i]) ELSE IsDigit(s[i]))
    IN  SelectSeq(Indices(s), NonDigit)

DigitsLenAt(s, nonDigits) == IF nonDigits = <<>> THEN Len(s) ELSE nonDigits[1] - 1

\* the length of the longest prefix of s made of digits of the radix
DigitsLen(s, radix) == DigitsLenAt(s, NonDigitIndices(s, radix))

\* the longest prefix of s made of digits of the radix
DigitsOf(s, radix) == Take(s, DigitsLen(s, radix))

\* the values of a string of decimal digits, as a sequence of its length
DigitValues(s) == SubSeq([i \in 1..Len(s) |-> DigitVal(s[i])], 1, Len(s))

\* the four bits of a hexadecimal digit
NibbleBits(v) == <<v \div 8, (v \div 4) % 2, (v \div 2) % 2, v % 2>>

\* the bits of a string of hexadecimal digits, from its first 1 on
HexBits(s) == StripLeft(Concat([i \in 1..Len(s) |-> NibbleBits(HexVal(s[i]))]))

IsNegative(t) == t # <<>> /\ t[1] = "-"

Unsigned(t) == IF t # <<>> /\ t[1] \in {"-", "+"} THEN Tail(t) ELSE t

\* the digits read as an integer, rounded to the nearest double
ParseDigits(neg, digits, radix) ==
    IF digits = <<>> THEN NaN
    ELSE IF radix = 16 THEN NumberOfBinary(neg, RoundBits(HexBits(digits), 0, FALSE))
    ELSE NumberOfDecimal(neg, DigitValues(digits), 0)

ParseUnsigned(neg, u) ==
    IF Len(u) >= 2 /\ u[1] = "0" /\ u[2] \in {"x", "X"}
    THEN ParseDigits(neg, DigitsOf(Drop(u, 2), 16), 16)
    ELSE ParseDigits(neg, DigitsOf(u, 10), 10)

ParseIntTrimmed(t) == ParseUnsigned(IsNegative(t), Unsigned(t))

\* Number.parseInt(string) with no radix: leading whitespace, a sign, an
\* optional 0x/0X prefix (radix 16), then the longest run of digits; NaN when
\* there is none.  What follows the digits is ignored.  The result is the
\* double nearest to the integer read, -0 for "-0".  (Past twenty digits
\* ECMAScript lets an implementation read zeros for the rest; V8 does not.)
ParseInt(s) == ParseIntTrimmed(TrimStart(s))

InfinityChars == <<"I", "n", "f", "i", "n", "i", "t", "y">>

\* an integer of any size is a sign and the digits of its magnitude, without
\* leading zeros; this is the one an integer of the model is
ExactOfInt(n) == [neg |-> n < 0, d |-> NatDigits(IF n < 0 THEN -n ELSE n)]

\* the integer of the model that such an integer of at most 9 digits is
IntOfExact(a) == IF a.neg THEN -DigitsNat(a.d) ELSE DigitsNat(a.d)

SumOfOrder(a, b, order) ==
    IF a.neg = b.neg THEN [neg |-> a.neg, d |-> Add(a.d, b.d)]
    ELSE IF order = 0 THEN [neg |-> FALSE, d |-> <<>>]
    ELSE IF order > 0 THEN [neg |-> a.neg, d |-> Subtract(a.d, b.d)]
    ELSE [neg |-> b.neg, d |-> Subtract(b.d, a.d)]

\* a + b of two such integers
ExactSum(a, b) == SumOfOrder(a, b, Compare(a.d, b.d))

\* the exponent e1 spells after the e, as an integer of any size: 0 unless a
\* sign and digits follow, and every digit that follows counts
ExponentValue(e1) ==
    IF DigitsLen(Unsigned(e1), 10) = 0 THEN ExactOfInt(0)
    ELSE [neg |-> IsNegative(e1),
          d |-> StripLeft(DigitValues(DigitsOf(Unsigned(e1), 10)))]

Exponent(afterMant) ==
    IF afterMant # <<>> /\ afterMant[1] \in {"e", "E"}
    THEN ExponentValue(Tail(afterMant))
    ELSE ExactOfInt(0)

\* the double nearest to 0.d * 10^m, for d without leading or trailing zeros
\* and not empty and m an integer of any size: Infinity from 10^309 on, 0
\* below 10^-324, and in between m is an integer of the model
NumberOfMagnitude(neg, d, m) ==
    IF ~m.neg /\ Compare(m.d, NatDigits(InfinityDigits)) > 0 THEN Infinity(neg)
    ELSE IF m.neg /\ Compare(m.d, NatDigits(-ZeroDigits)) > 0 THEN Zero(neg)
    ELSE NumberOfStripped(neg, d, IntOfExact(m) - Len(d))

\* the double nearest to the decimal d * 10^e, e an integer of any size
NumberOfScaled(neg, d, e) ==
    IF IsZero(d) THEN Zero(neg)
    ELSE NumberOfMagnitude(neg, StripRight(StripLeft(d)),
                           ExactSum(e, ExactOfInt(Len(StripLeft(d)))))

\* the mantissa digits with the point taken out, times ten to the exponent
\* written less the number of fraction digits
ParseMantissa(neg, intDigits, fracDigits, afterMant) ==
    IF intDigits \o fracDigits = <<>> THEN NaN
    ELSE NumberOfScaled(neg, DigitValues(intDigits \o fracDigits),
                        ExactSum(Exponent(afterMant),
                                 ExactOfInt(-Len(fracDigits))))

ParseFraction(neg, intDigits, afterInt) ==
    IF afterInt # <<>> /\ afterInt[1] = "."
    THEN ParseMantissa(neg, intDigits, DigitsOf(Tail(afterInt), 10),
                       Drop(afterInt, 1 + DigitsLen(Tail(afterInt), 10)))
    ELSE ParseMantissa(neg, intDigits, <<>>, afterInt)

ParseFloatUnsigned(neg, u) ==
    IF Len(u) >= 8 /\ Take(u, 8) = InfinityChars
    THEN Infinity(neg)
    ELSE ParseFraction(neg, DigitsOf(u, 10), Drop(u, DigitsLen(u, 10)))

ParseFloatTrimmed(t) == ParseFloatUnsigned(IsNegative(t), Unsigned(t))

\* Number.parseFloat(string): leading whitespace, then the longest prefix that
\* is a decimal literal: a sign, Infinity or digits with an optional fraction
\* and an optional exponent; NaN when there is none.  The result is the double
\* nearest to the decimal read: Infinity beyond the largest double, 0 below
\* the least, -0 for "-0".
ParseFloat(s) == ParseFloatTrimmed(TrimStart(s))

(***************************************************************************)
(* Number::toString, as a template literal applies it                      *)
(***************************************************************************)
DigitString(d) == [i \in 1..Len(d) |-> DigitChars[d[i] + 1]]

\* the string of a natural number of the model
NatToChars(n) == IF n = 0 THEN <<"0">> ELSE DigitString(NatDigits(n))

\* the string of an integer of the model
ToChars(n) == IF n < 0 THEN <<"-">> \o NatToChars(-n) ELSE NatToChars(n)

\* the string of digits * 10^(n - Len(digits)) in exponent form
ExponentString(d, n) ==
    (IF Len(d) = 1 THEN DigitString(d)
     ELSE <<DigitChars[d[1] + 1], ".">> \o DigitString(Tail(d)))
    \o <<"e", IF n - 1 < 0 THEN "-" ELSE "+">>
    \o NatToChars(IF n - 1 < 0 THEN 1 - n ELSE n - 1)

\* the string of the positive decimal 0.digits * 10^n
DecimalString(d, n) ==
    IF Len(d) <= n /\ n <= 21 THEN DigitString(d \o Zeros(n - Len(d)))
    ELSE IF 0 < n /\ n <= 21
    THEN DigitString(Take(d, n)) \o <<".">> \o DigitString(Drop(d, n))
    ELSE IF -6 < n /\ n <= 0
    THEN <<"0", ".">> \o DigitString(Zeros(-n) \o d)
    ELSE ExponentString(d, n)

\* the string a template literal makes of a Number
NumberToChars(x) ==
    IF x.nan THEN <<"N", "a", "N">>
    ELSE IF x.inf THEN (IF x.neg THEN <<"-">> ELSE <<>>) \o InfinityChars
    ELSE IF x.digits = <<>> THEN <<"0">>
    ELSE (IF x.neg THEN <<"-">> ELSE <<>>)
         \o DecimalString(x.digits, Len(x.digits) + x.exp)

\* String.prototype.padStart(n, "0")
PadStart(s, n) == [i \in 1..(n - Len(s)) |-> "0"] \o s

(***************************************************************************)
(* The numeric/sentinel decoder                                            *)
(***************************************************************************)
NOT_APPLICABLE == 99999

Undefined == [ok |-> FALSE, v |-> NaN]

Some(n) == [ok |-> TRUE, v |-> n]

\* a decoder that forgets the sentinel: 99999 is a value like any other
applicableValueWithSentinel(parsedValue) ==
    IF parsedValue.nan THEN Undefined ELSE Some(parsedValue)

\* parsedValue of parseIntegerValue, with NaN and the sentinel made undefined
applicableValue(parsedValue) ==
    IF parsedValue.nan THEN Undefined
    ELSE IF ~StrictEquals(parsedValue, FromInt(NOT_APPLICABLE)) THEN Some(parsedValue)
    ELSE Undefined

\* parseIntegerValue(value) of a token that is present
parseIntegerValue(value) == applicableValue(ParseInt(value))

\* parseIntegerValue(lineParts[i]): undefined when the token is absent
parseIntegerPart(parts, i) ==
    IF HasPart(parts, i) THEN parseIntegerValue(Part(parts, i)) ELSE Undefined

(***************************************************************************)
(* Errors: new Error(message + detail); a thrown error ends the whole call *)
(***************************************************************************)
NoError == [name |-> "", message |-> "", detail |-> <<>>]

Error(message, detail) ==
    [name |-> "Error", message |-> message, detail |-> detail]

TypeError(message) == [name |-> "TypeError", message |-> message, detail |-> <<>>]

UndefinedChars == <<"u", "n", "d", "e", "f", "i", "n", "e", "d">>

(***************************************************************************)
(* The date/type line                                                      *)
(***************************************************************************)
months ==
    << <<"J", "A", "N">>, <<"F", "E", "B">>, <<"M", "A", "R">>,
       <<"A", "P", "R">>, <<"M", "A", "Y">>, <<"J", "U", "N">>,
       <<"J", "U", "L">>, <<"A", "U", "G">>, <<"S", "E", "P">>,
       <<"O", "C", "T">>, <<"N", "O", "V">>, <<"D", "E", "C">> >>

\* months[up]: JAN=0 .. DEC=11; ok is FALSE where it is undefined
monthNumber(up) ==
    IF \E i \in 1..12 : months[i] = up
    THEN [ok |-> TRUE, v |-> (CHOOSE i \in 1..12 : months[i] = up) - 1]
    ELSE [ok |-> FALSE, v |-> 0]

\* getMonth(month); ok is FALSE where the code throws
\* Error(`Invalid month: ${month}`)
getMonth(month) == monthNumber(ToUpperCase(month))

\* a / b of the runtime's 32-bit integers: the quotient rounded toward zero
Quotient(a, b) == IF a >= 0 THEN a \div b ELSE -((-a) \div b)

\* the runtime (V8) counts the years from -399999, a year that is -1 modulo
\* 400 and earlier than every year a time value can have
kYearDelta == 399999

\* 365 * y + y / 4 - y / 100 + y / 400 in that integer arithmetic: the days
\* before year y - kYearDelta where y > 0, and one day more than the
\* proleptic Gregorian calendar has where y < 0
DaysOfYears(y) ==
    365 * y + Quotient(y, 4) - Quotient(y, 100) + Quotient(y, 400)

kBaseDay == DaysOfYears(1970 + kYearDelta)

kDayFromMonth == <<0, 31, 59, 90, 120, 151, 181, 212, 243, 273, 304, 334>>

kDayFromMonthLeap == <<0, 31, 60, 91, 121, 152, 182, 213, 244, 274, 305, 335>>

IsLeapYear(year) == year % 4 = 0 /\ (year % 100 # 0 \/ year % 400 = 0)

\* the day number (days since 1970-01-01) of the first day of a month,
\* month being 0..11, as MakeDay of the runtime computes it
DayFromYearMonth(year, month) ==
    DaysOfYears(year + kYearDelta) - kBaseDay
    + (IF IsLeapYear(year) THEN kDayFromMonthLeap ELSE kDayFromMonth)[month + 1]

\* the date of the day doy (0 = March 1) of a year that starts in March
CivilFromMonth(y, doy, mp) ==
    [year |-> IF mp < 10 THEN y ELSE y + 1,
     month |-> IF mp < 10 THEN mp + 3 ELSE mp - 9,
     day |-> doy - (153 * mp + 2) \div 5 + 1]

CivilFromYearOfEra(era, doe, yoe) ==
    CivilFromMonth(yoe + era * 400,
                   doe - (365 * yoe + yoe \div 4 - yoe \div 100),
                   (5 * (doe - (365 * yoe + yoe \div 4 - yoe \div 100)) + 2) \div 153)

CivilFromDayOfEra(era, doe) ==
    CivilFromYearOfEra(era, doe,
        (doe - doe \div 1460 + doe \div 36524 - doe \div 146096) \div 365)

\* the calendar date of a day number: YearFromTime, MonthFromTime (here
\* 1..12) and DateFromTime of ECMAScript
CivilFromDays(days) ==
    CivilFromDayOfEra((days + 719468) \div 146097, (days + 719468) % 146097)

msPerHour == 3600000

msPerDay == 86400000

\* the largest time value of a Date, 8.64 * 10^15 ms, in digits
MaxTimeDigits == <<8, 6, 4>> \o Zeros(13)

\* MakeDay of the runtime is NaN for a year beyond +-1000000
MaxYear == 1000000

\* an integer as a sign and the digits of its magnitude
ExactInteger(x) == [neg |-> x.neg, d |-> ExactDigits(x)]

\* the double nearest to such an integer
NumberOfInteger(a) == NumberOfDecimal(a.neg, a.d, 0)

\* x + y in double arithmetic, x and y finite integers
Plus(x, y) == NumberOfInteger(ExactSum(ExactInteger(x), ExactInteger(y)))

\* x * c in double arithmetic, x a finite integer and c a natural number
TimesNat(x, c) == NumberOfDecimal(x.neg, Times(ExactDigits(x), c), 0)

\* MakeTime(hour, 0, 0, 0) of ECMAScript
MakeTime(hour) == IF ~IsFinite(hour) THEN NaN ELSE TimesNat(hour, msPerHour)

\* MakeFullYear of ECMAScript: a year 0..99 means 1900 + year
MakeFullYear(year) == IF 0 <= year /\ year <= 99 THEN 1900 + year ELSE year

\* (Day(t) - 1) + dt for the first day t of the month: the day before the
\* month is an exact integer, and the one sum is rounded
DayFromDate(year, month, date) ==
    Plus(FromInt(DayFromYearMonth(year, month) - 1), date)

YearInRange(year) ==
    /\ IsSmallInteger(year)
    /\ IntOf(year) >= -MaxYear
    /\ IntOf(year) <= MaxYear

\* MakeDay(year, month, date) of ECMAScript, month being 0..11
MakeDay(year, month, date) ==
    IF ~IsFinite(date) \/ ~YearInRange(year) THEN NaN
    ELSE DayFromDate(MakeFullYear(IntOf(year)), month, date)

FiniteOrNaN(x) == IF IsFinite(x) THEN x ELSE NaN

MakeDateFrom(dayTime, time) ==
    IF ~IsFinite(dayTime) THEN NaN ELSE FiniteOrNaN(Plus(dayTime, time))

\* MakeDate(day, time) of ECMAScript: day * msPerDay + time
MakeDate(day, time) ==
    IF ~IsFinite(day) \/ ~IsFinite(time) THEN NaN
    ELSE MakeDateFrom(TimesNat(day, msPerDay), time)

\* TimeClip of ECMAScript: NaN beyond +-8.64e15 ms, and never -0
TimeClip(time) ==
    IF ~IsFinite(time) THEN NaN
    ELSE IF Len(time.digits) + time.exp > Len(MaxTimeDigits) THEN NaN
    ELSE IF Compare(ExactDigits(time), MaxTimeDigits) > 0 THEN NaN
    ELSE IF time.digits = <<>> THEN Zero(FALSE)
    ELSE time

\* Date.UTC(year, month, day, hour): the time value in ms, NaN for an
\* invalid date
DateUTC(year, month, day, hour) ==
    TimeClip(MakeDate(MakeDay(year, month, day), MakeTime(hour)))

\* TimeClip: a time value beyond +-8.64e15 ms is an invalid date, and
\* toISOString throws a RangeError on it
ValidTime(tv) == ~tv.nan

\* the quotient and the remainder of n by msPerDay, n of sixteen digits:
\* the first eleven are divided by 864, seven and then four
DivideByDay(d) ==
    LET high == DigitsNat(SubSeq(d, 1, 7))
        rest == (high % 864) * 10000 + DigitsNat(SubSeq(d, 8, 11))
    IN  [q |-> (high \div 864) * 10000 + rest \div 864,
         r |-> (rest % 864) * 100000 + DigitsNat(SubSeq(d, 12, 16))]

\* Day(tv) and TimeWithinDay(tv) of ECMAScript
DayAndTime(neg, qr) ==
    IF ~neg THEN [day |-> qr.q, ms |-> qr.r]
    ELSE IF qr.r = 0 THEN [day |-> -qr.q, ms |-> 0]
    ELSE [day |-> -qr.q - 1, ms |-> msPerDay - qr.r]

YearChars(year) ==
    IF 0 <= year /\ year <= 9999
    THEN PadStart(NatToChars(year), 4)
    ELSE IF year < 0 THEN <<"-">> \o PadStart(NatToChars(-year), 6)
    ELSE <<"+">> \o PadStart(NatToChars(year), 6)

ISOString(c, ms) ==
    YearChars(c.year)
        \o <<"-">> \o PadStart(NatToChars(c.month), 2)
        \o <<"-">> \o PadStart(NatToChars(c.day), 2)
        \o <<"T">> \o PadStart(NatToChars(ms \div msPerHour), 2)
        \o <<":">> \o PadStart(NatToChars((ms \div 60000) % 60), 2)
        \o <<":">> \o PadStart(NatToChars((ms \div 1000) % 60), 2)
        \o <<".">> \o PadStart(NatToChars(ms % 1000), 3)
        \o <<"Z">>

ISOStringOf(t) == ISOString(CivilFromDays(t.day), t.ms)

\* Date.prototype.toISOString of a valid time value
toISOString(tv) ==
    ISOStringOf(DayAndTime(tv.neg, DivideByDay(PadLeft(ExactDigits(tv), 16))))

\* a token of splitLine that is present and not the empty string
Truthy(parts, i) == HasPart(parts, i) /\ Part(parts, i) # <<>>

\* lineParts[i] ? Number.parseInt(lineParts[i]) : null; null is falsy like NaN
\* and is never used as a number, so both are the nan record here
parseIntOrNull(parts, i) ==
    IF Truthy(parts, i) THEN ParseInt(Part(parts, i)) ELSE NaN

\* lineParts[3] ? getMonth(lineParts[3]) : null, where getMonth returns
monthOrNull(parts) ==
    IF Truthy(parts, 3) THEN FromInt(getMonth(Part(parts, 3)).v) ELSE NaN

\* a presence check that is independent of the value: zero is present
TruthyNumberOrZero(x) == ~x.nan

\* the truth value of a number | null: false for null, NaN, 0 and -0
TruthyNumber(x) == ~x.nan /\ (x.inf \/ x.digits # <<>>)

NoDate == [threw |-> FALSE, error |-> NoError, date |-> <<>>, type |-> <<>>]

DateThrow(error) == [NoDate EXCEPT !.threw = TRUE, !.error = error]

\* date = new Date(Date.UTC(year, month, day, hour)).toISOString(), caught
dateFromTime(type, tv) ==
    IF ~ValidTime(tv)
    THEN DateThrow(Error("Failed to parse date line", <<>>))
    ELSE [NoDate EXCEPT !.date = toISOString(tv), !.type = type]

\* if (!(year && month && day && hour)) throw ...
dateFromNumbers(type, year, month, day, hour) ==
    IF ~(TruthyNumber(year) /\ TruthyNumber(month)
            /\ TruthyNumber(day) /\ TruthyNumber(hour))
    THEN DateThrow(Error("Failed to parse date from meta line", <<>>))
    ELSE dateFromTime(type, DateUTC(year, IntOf(month), day, hour))

dateFromParts(lineParts) ==
    IF ~HasPart(lineParts, 0)
    THEN DateThrow(Error("Failed to parse type from meta line", <<>>))
    ELSE IF Truthy(lineParts, 3) /\ ~getMonth(Part(lineParts, 3)).ok
    THEN DateThrow(Error("Invalid month: ", Part(lineParts, 3)))
    ELSE dateFromNumbers(Part(lineParts, 0),
                         parseIntOrNull(lineParts, 4),
                         monthOrNull(lineParts),
                         parseIntOrNull(lineParts, 2),
                         parseIntOrNull(lineParts, 1))

\* parseDateLine(line): threw with its error, or the date and type
parseDateLine(line) == dateFromParts(splitLine(line))

(***************************************************************************)
(* The CAPE/CIN line                                                       *)
(***************************************************************************)
NoCapeCin == [threw |-> FALSE, error |-> NoError, cape |-> NaN, cin |-> NaN]

capeCinFrom(cape, cin) ==
    IF ~cape.ok \/ ~cin.ok
    THEN [NoCapeCin EXCEPT !.threw = TRUE,
                           !.error = Error("Failed to parse cape/cin line", <<>>)]
    ELSE [NoCapeCin EXCEPT !.cape = cape.v, !.cin = cin.v]

capeCinFromParts(lineParts) ==
    capeCinFrom(parseIntegerPart(lineParts, 1), parseIntegerPart(lineParts, 3))

parseCapeCinLine(line) == capeCinFromParts(splitLine(line))

(***************************************************************************)
(* The station identification line (type 1)                                *)
(***************************************************************************)
\* lineParts.splice(3, 1, firstPart, `-${lastPart}`)
splice(lineParts, split) ==
    Take(lineParts, 3)
        \o <<JoinChar(Take(split, Len(split) - 1), "-"), <<"-">> \o split[Len(split)]>>
        \o Drop(lineParts, 4)

\* split = latLon.split('-'); lastPart = split.pop();
\* firstPart = split.join('-'); then the splice
spliceLatLon(lineParts) == splice(lineParts, SplitChar(Part(lineParts, 3), "-"))

\* Number.parseFloat(lineParts[i] ?? '')
parseFloatPart(parts, i) ==
    IF HasPart(parts, i) THEN ParseFloat(Part(parts, i)) ELSE NaN

NoStationIdentification ==
    [threw |-> FALSE, error |-> NoError,
     wban |-> Undefined, wmo |-> Undefined, elev |-> Undefined, rtime |-> Undefined,
     lat |-> NaN, lon |-> NaN]

\* the decoding of [_, wban, wmo, _lat, _lon, elev, rtime] = lineParts
stationFromLatLon(lineParts, lat, lon) ==
    IF lat.nan \/ lon.nan
    THEN [NoStationIdentification EXCEPT
            !.threw = TRUE,
            !.error = Error("Failed to parse lat/lon from station identification line", <<>>)]
    ELSE [NoStationIdentification EXCEPT
            !.wban = parseIntegerPart(lineParts, 1),
            !.wmo = parseIntegerPart(lineParts, 2),
            !.elev = parseIntegerPart(lineParts, 5),
            !.rtime = parseIntegerPart(lineParts, 6),
            !.lat = lat,
            !.lon = lon]

stationFromParts(lineParts) ==
    stationFromLatLon(lineParts, parseFloatPart(lineParts, 3), parseFloatPart(lineParts, 4))

\* if (Number.isNaN(Number.parseInt(latLon))) { ... lineParts.splice(...) }
repairLatLon(lineParts) ==
    IF ParseInt(Part(lineParts, 3)).nan THEN spliceLatLon(lineParts) ELSE lineParts

parseStationIdentificationLine(lineParts) ==
    IF ~Truthy(lineParts, 3)
    THEN [NoStationIdentification EXCEPT
            !.threw = TRUE,
            !.error = Error("Failed to parse station identification line", <<>>)]
    ELSE stationFromParts(repairLatLon(lineParts))

(***************************************************************************)
(* The station identifier line (type 3)                                    *)
(***************************************************************************)
SondeTypeA == 10

SondeTypeB == 11

SondeSpaceDataCorp == 12

\* a check that takes any number for a sonde type
isSondeAnyNumber(value) == ~value.nan

isSonde(value) ==
    \/ StrictEquals(value, FromInt(SondeTypeA))
    \/ StrictEquals(value, FromInt(SondeTypeB))
    \/ StrictEquals(value, FromInt(SondeSpaceDataCorp))

WindUnitsKT == <<"k", "t">>

WindUnitsMS == <<"m", "s">>

\* isWindUnits(lineParts[i])
isWindUnits(parts, i) ==
    IF ~HasPart(parts, i) THEN FALSE
    ELSE Part(parts, i) = WindUnitsKT \/ Part(parts, i) = WindUnitsMS

NoStationIdentifier ==
    [threw |-> FALSE, error |-> NoError,
     sonde |-> NaN, stationId |-> <<>>, windUnits |-> <<>>]

IdentifierThrow(message, detail) ==
    [NoStationIdentifier EXCEPT !.threw = TRUE, !.error = Error(message, detail)]

identifierFromSonde(lineParts, sonde) ==
    IF ~isSonde(sonde)
    THEN IdentifierThrow("Unrecognized sonde type: ", NumberToChars(sonde))
    ELSE IF ~isWindUnits(lineParts, 3)
    THEN IdentifierThrow("Unrecognized wind units: ",
                         IF HasPart(lineParts, 3) THEN Part(lineParts, 3)
                         ELSE UndefinedChars)
    ELSE [NoStationIdentifier EXCEPT
            !.sonde = sonde,
            !.stationId = Part(lineParts, 1),
            !.windUnits = Part(lineParts, 3)]

\* Number.parseInt(_sonde ?? '')
parseSonde(lineParts) ==
    IF HasPart(lineParts, 2) THEN ParseInt(Part(lineParts, 2)) ELSE NaN

parseStationIdentifierLine(lineParts) ==
    IF ~Truthy(lineParts, 1)
    THEN IdentifierThrow("Failed to parse stationId from station identifier line", <<>>)
    ELSE identifierFromSonde(lineParts, parseSonde(lineParts))

(***************************************************************************)
(* Data lines (types 4, 5 and 9)                                           *)
(***************************************************************************)
parseDataLine(lineParts) ==
    [pressure |-> parseIntegerPart(lineParts, 1),
     height |-> parseIntegerPart(lineParts, 2),
     temp |-> parseIntegerPart(lineParts, 3),
     dewpt |-> parseIntegerPart(lineParts, 4),
     windDir |-> parseIntegerPart(lineParts, 5),
     windSpd |-> parseIntegerPart(lineParts, 6)]

\* value !== undefined && value !== NOT_APPLICABLE
Applicable(x) == x.ok /\ ~StrictEquals(x.v, FromInt(NOT_APPLICABLE))

\* a filter that asks for the dewpt as well
isSoundingDatumWithDewpt(data) ==
    /\ Applicable(data.height)
    /\ Applicable(data.pressure)
    /\ Applicable(data.temp)
    /\ Applicable(data.dewpt)
    /\ Applicable(data.windDir)
    /\ Applicable(data.windSpd)

\* the filter of parseDataLines
isSoundingDatum(data) ==
    /\ Applicable(data.height)
    /\ Applicable(data.pressure)
    /\ Applicable(data.temp)
    /\ Applicable(data.windDir)
    /\ Applicable(data.windSpd)

parseDataLines(dataLines) ==
    SelectSeq([i \in 1..Len(dataLines) |-> parseDataLine(dataLines[i])],
              isSoundingDatum)

(***************************************************************************)
(* Report assembly                                                         *)
(***************************************************************************)
StationIdentificationId == <<"1">>

StationIdentifierId == <<"3">>

MandatoryLevel == <<"4">>

SignificantLevel == <<"5">>

SurfaceLevel == <<"9">>

\* Array.prototype.find by the line's first token: the index of the first
\* match, 0 when there is none
FindLine(lineParts, id) ==
    IF \E i \in 1..Len(lineParts) : Part(lineParts[i], 0) = id
    THEN CHOOSE i \in 1..Len(lineParts) :
            /\ Part(lineParts[i], 0) = id
            /\ \A j \in 1..(i - 1) : Part(lineParts[j], 0) # id
    ELSE 0

\* the filter of parseLines
isDataLine(line) ==
    \/ Part(line, 0) = MandatoryLevel
    \/ Part(line, 0) = SignificantLevel
    \/ Part(line, 0) = SurfaceLevel

NoReport ==
    [cape |-> NaN, cin |-> NaN, date |-> <<>>, type |-> <<>>,
     wban |-> Undefined, wmo |-> Undefined, elev |-> Undefined, rtime |-> Undefined,
     lat |-> NaN, lon |-> NaN,
     sonde |-> NaN, stationId |-> <<>>, windUnits |-> <<>>, data |-> <<>>]

NoLines == [threw |-> FALSE, error |-> NoError, report |-> NoReport]

LinesThrow(error) == [NoLines EXCEPT !.threw = TRUE, !.error = error]

\* { ...stationIdentificationData, ...stationIdentifierData, data }
linesFromData(stationIdentificationData, stationIdentifierData, data) ==
    [NoLines EXCEPT
        !.report = [NoReport EXCEPT
            !.wban = stationIdentificationData.wban,
            !.wmo = stationIdentificationData.wmo,
            !.elev = stationIdentificationData.elev,
            !.rtime = stationIdentificationData.rtime,
            !.lat = stationIdentificationData.lat,
            !.lon = stationIdentificationData.lon,
            !.sonde = stationIdentifierData.sonde,
            !.stationId = stationIdentifierData.stationId,
            !.windUnits = stationIdentifierData.windUnits,
            !.data = data]]

linesFromIdentifier(lineParts, stationIdentificationData, stationIdentifierData) ==
    IF stationIdentifierData.threw
    THEN LinesThrow(stationIdentifierData.error)
    ELSE linesFromData(stationIdentificationData, stationIdentifierData,
                       parseDataLines(SelectSeq(lineParts, isDataLine)))

linesFromIdentification(lineParts, stationIdentificationData, stationIdentifierLine) ==
    IF stationIdentificationData.threw
    THEN LinesThrow(stationIdentificationData.error)
    ELSE linesFromIdentifier(lineParts, stationIdentificationData,
                             parseStationIdentifierLine(stationIdentifierLine))

\* i1, i3: where the two station lines were found, 0 for not found
linesFromFound(lineParts, i1, i3) ==
    IF i1 = 0 \/ i3 = 0
    THEN LinesThrow(Error("Failed to parse station identification lines", <<>>))
    ELSE linesFromIdentification(lineParts,
                                 parseStationIdentificationLine(lineParts[i1]),
                                 lineParts[i3])

linesFromParts(lineParts) ==
    linesFromFound(lineParts,
                   FindLine(lineParts, StationIdentificationId),
                   FindLine(lineParts, StationIdentifierId))

\* parseLines(lines): threw with its error, or the station fields and data
\* (in a report whose date, type, cape and cin are not yet set)
parseLines(lines) == linesFromParts([i \in 1..Len(lines) |-> splitLine(lines[i])])

NoResult == [kind |-> "undefined", error |-> NoError, report |-> NoReport]

Throw(error) == [NoResult EXCEPT !.kind = "throw", !.error = error]

\* lines.shift() gave a line and it is not the empty string
TruthyLine(lines, i) == i <= Len(lines) /\ lines[i] # <<>>

\* return { cape, cin, date, type, ...data }
reportFromData(dateData, capeCin, data) ==
    IF data.threw THEN Throw(data.error)
    ELSE [NoResult EXCEPT
            !.kind = "report",
            !.report = [data.report EXCEPT
                !.cape = capeCin.cape,
                !.cin = capeCin.cin,
                !.date = dateData.date,
                !.type = dateData.type]]

reportFromCapeCin(lines, dateData, capeCin) ==
    IF capeCin.threw THEN Throw(capeCin.error)
    ELSE reportFromData(dateData, capeCin, parseLines(Drop(lines, 3)))

reportFromDate(lines, dateData) ==
    IF dateData.threw THEN Throw(dateData.error)
    ELSE reportFromCapeCin(lines, dateData, parseCapeCinLine(lines[3]))

\* lines: rawReport.split('\n'), its first three the meta line, the date line
\* and the cape/cin line
reportFromLines(lines) ==
    IF ~(TruthyLine(lines, 1) /\ TruthyLine(lines, 2) /\ TruthyLine(lines, 3))
    THEN NoResult
    ELSE reportFromDate(lines, parseDateLine(lines[2]))

\* parseReport(rawReport): kind "undefined" (the block is discarded), "throw"
\* (with its error) or "report"
parseReport(rawReport) == reportFromLines(SplitChar(rawReport, "\n"))

(***************************************************************************)
(* The report splitter: rawInput.split(/(\n[\s]*\n)/).filter(trim)         *)
(***************************************************************************)
\* the text of line k of s, whose newlines are at the positions nl
LineAt(s, nl, k) ==
    SubSeq(s, IF k = 1 THEN 1 ELSE nl[k - 1] + 1,
              IF k = Len(nl) + 1 THEN Len(s) ELSE nl[k] - 1)

\* the match of /\n\n+/, which allows no whitespace between the newlines
InMatchEmptyLine(s, nl, k) ==
    /\ 1 < k
    /\ k <= Len(nl)
    /\ LineAt(s, nl, k) = <<>>

\* line k lies in a match of /\n[\s]*\n/: it is all whitespace and has a
\* newline on both sides
InMatch(s, nl, k) ==
    /\ 1 < k
    /\ k <= Len(nl)
    /\ Trim(LineAt(s, nl, k)) = <<>>

\* the lines first[g] up to the one before first[g + 1]: a captured separator
\* with its two newlines (the last line is in no match, so a line follows
\* it), or a piece between two separators
Group(s, nl, first, g) ==
    IF InMatch(s, nl, first[g])
    THEN SubSeq(s, nl[first[g] - 1], nl[first[g + 1] - 1])
    ELSE SubSeq(s, IF first[g] = 1 THEN 1 ELSE nl[first[g] - 1] + 1,
                   IF g = Len(first) THEN Len(s) ELSE nl[first[g + 1] - 1] - 1)

\* the lines at which a separator or a piece starts
GroupStarts(s, nl) ==
    LET IsFirst(k) == k = 1 \/ InMatch(s, nl, k) # InMatch(s, nl, k - 1)
    IN  SelectSeq([k \in 1..(Len(nl) + 1) |-> k], IsFirst)

Groups(s, nl, first) == [g \in 1..Len(first) |-> Group(s, nl, first, g)]

SplitAtNewlines(s, nl) == Groups(s, nl, GroupStarts(s, nl))

\* String.prototype.split with the capturing regular expression /(\n[\s]*\n)/:
\* the pieces between the matches, each followed by the separator captured.
\* A match starts at a newline and, [\s]* being greedy, runs to the last
\* newline of the whitespace that follows; matches are taken leftmost first and
\* do not overlap.  In terms of the lines of s (its pieces between newlines):
\* a match is a maximal run of whitespace-only lines that have a newline on
\* both sides (so neither the first nor the last line), with those two
\* newlines; a piece is the lines between two matches.
SplitBlankLines(s) ==
    LET IsNewline(i) == s[i] = "\n"
    IN  SplitAtNewlines(s, SelectSeq(Indices(s), IsNewline))

\* .filter((line) => line.trim())
NotBlank(line) == Trim(line) # <<>>

splitRawReports(text) == SelectSeq(SplitBlankLines(text), NotBlank)

(***************************************************************************)
(* Inputs.  A text is built from tokens joined by single spaces (in one    *)
(* line by other whitespace) into lines, lines joined by newlines into     *)
(* blocks, and blocks joined by a blank-line separator.                    *)
(***************************************************************************)
tOp40 == <<"O", "p", "4", "0">>

tCAPE == <<"C", "A", "P", "E">>

tCIN == <<"C", "I", "N">>

tSGU == <<"S", "G", "U">>

tDEN == <<"D", "E", "N">>

tJun == <<"J", "u", "n">>

tJAN == <<"J", "A", "N">>

tjan == <<"j", "a", "n">>

tFEB == <<"F", "E", "B">>

tXXX == <<"X", "X", "X">>

tkt == <<"k", "t">>

tms == <<"m", "s">>

tKT == <<"K", "T">>

txx == <<"x", "x">>

t00 == <<"0", "0">>

t12abc == <<"1", "2", "a", "b", "c">>

tLat == <<"3", "7", ".", "0", "9">>

tLon == <<"-", "1", "1", "3", ".", "5", "9">>

tLatLon == <<"3", "7", "8", "2", "-", "0", "7", "8", "5", "4">>

tLatLonDec == <<"3", "7", ".", "0", "9", "-", "1", "1", "3", ".", "5", "9">>

tFracLatLon == <<".", "5", "-", "1", "1", "3", ".", "5", "9">>

tabc == <<"a", "b", "c">>

\* sep with the long s, U+017F, whose upper case is S
tLongSep == <<"U+017F", "e", "p">>

tMinusZero == <<"-", "0">>

\* an integer beyond 2^53, which reads as the double next to it
tBeyond == <<"9", "0", "0", "7", "1", "9", "9", "2", "5", "4", "7", "4", "0", "9", "9", "3">>

\* a decimal beyond the largest double, which reads as Infinity
tHuge == <<"1", "e", "4", "0", "0">>

\* 37.09 with an exponent of seven digits
tLatExp == <<"3", "7", "0", "9", "e", "-", "0", "0", "0", "0", "0", "0", "2">>

\* twelve in hexadecimal
tHexTwelve == <<"0", "x", "C">>

tNA == <<"9", "9", "9", "9", "9">>

\* a decimal integer token
N(n) == ToChars(n)

RECURSIVE Join(_, _)
Join(parts, sep) ==
    IF parts = <<>> THEN <<>>
    ELSE IF Len(parts) = 1 THEN parts[1]
    ELSE parts[1] \o sep \o Join(Tail(parts), sep)

Line(tokens) == Join(tokens, <<" ">>)

Block(lines) == Join(lines, <<"\n">>)

\* the sequences over S of length lo..hi
SeqsOf(S, lo, hi) == UNION {[1..n -> S] : n \in lo..hi}

MetaLine == Line(<<tSGU, N(1)>>)

DateLineOK == Line(<<tOp40, N(18), N(22), tJun, N(2024)>>)

CapeCinLineOK == Line(<<tCAPE, N(120), tCIN, N(-5)>>)

Line1OK == Line(<<N(1), N(23062), tNA, tLat, tLon, N(896), tNA>>)

Line3OK == Line(<<N(3), tSGU, N(12), tkt>>)

DataLineOK == Line(<<N(9), N(9116), N(896), N(352), N(73), N(220), N(11)>>)

\* a block from its date line, cape/cin line and the lines after them
Report(dateLine, capeCinLine, body) ==
    Block(<<MetaLine, dateLine, capeCinLine>> \o body)

DateLines ==
    {Line(<<tOp40, h, d, m, y>>) :
        h \in {N(18), N(0), t00, tMinusZero, txx, N(25)},
        d \in {N(22), N(0), N(31)},
        m \in {tJun, tJAN, tjan, tFEB, tLongSep, tXXX},
        y \in {N(2024), N(0), N(99), N(300000), tBeyond}}
    \cup {Line(<<tOp40>>), Line(<<tOp40, N(18)>>), Line(<<tOp40, N(18), N(22)>>),
          Line(<<tOp40, N(18), N(22), tJun>>), Line(<<tOp40, N(0), N(22), tXXX>>)}

CapeCinLines ==
    {CapeCinLineOK,
     Line(<<tCAPE, N(0), tCIN, N(0)>>),
     Line(<<tCAPE, tNA, tCIN, N(0)>>),
     Line(<<tCAPE, N(0), tCIN, tNA>>),
     Line(<<tCAPE>>),
     Line(<<tCAPE, txx, tCIN, N(3)>>),
     Line(<<tCAPE, N(1), tCIN>>)}

Lines1 ==
    {Line(<<N(1), wban, wmo>> \o latLon \o rest) :
        wban \in {N(23062), tNA},
        wmo \in {N(72469), tNA},
        latLon \in {<<tLat, tLon>>, <<tLatLon>>, <<tLatLonDec>>, <<tFracLatLon>>,
                    <<tabc, tLon>>, <<tLat, txx>>, <<tNA, tNA>>, <<tHuge, tLon>>,
                    <<tLatExp, tLon>>, <<>>},
        rest \in {<<N(896), tNA>>, <<tNA, N(1200)>>, <<N(896)>>, <<>>}}

Lines3 ==
    {Line(<<N(3), tSGU, sonde>> \o wu) :
        sonde \in {N(10), N(11), N(12), N(13), N(99), t12abc, tHexTwelve, txx},
        wu \in {<<tkt>>, <<tms>>, <<txx>>, <<tKT>>, <<>>}}
    \cup {Line(<<N(3)>>), Line(<<N(3), tSGU>>)}

DataLines ==
    {DataLineOK,
     Join(<<N(4), N(850), N(1500), N(100), N(50), N(270), N(15)>>, <<"\f", " ">>),
     Line(<<N(5), N(700), N(3000), N(-50), tNA, N(280), N(20)>>),
     Line(<<N(5), N(700), N(3000), N(-50)>>),
     Line(<<N(9), tNA, N(896), N(352), N(73), N(220), N(11)>>),
     Line(<<N(4), N(850), tNA, N(100), N(50), N(270), N(15)>>),
     Line(<<N(4), N(850), N(1500), txx, N(50), N(270), N(15)>>),
     Line(<<N(5), N(850), N(1500), N(100), N(50), tNA, N(15)>>),
     Line(<<N(9), N(850), N(1500), N(100), N(50), N(270)>>),
     Line(<<N(4), N(850), N(1500), N(100), N(50), N(270), tNA>>),
     Line(<<N(6), N(850), N(1500), N(100), N(50), N(270), N(15)>>),
     Line(<<N(9), tBeyond, N(0), N(0), N(0), N(0), N(0)>>),
     Line(<<N(5), t12abc, N(1500), N(100), txx, N(270), N(15)>>),
     Line(<<N(4)>>)}

\* the body lines in the orders the families below do not vary
Bodies ==
    {<<Line1OK, Line3OK, DataLineOK>>,
     <<DataLineOK, Line3OK, Line1OK>>,
     <<Line1OK, DataLineOK>>,
     <<Line3OK, DataLineOK>>,
     <<Line1OK, Line3OK, Line(<<N(3), tSGU, N(99), txx>>), DataLineOK>>,
     <<Line1OK, Line(<<N(1), tNA, tNA, tabc>>), Line3OK>>,
     <<>>}

MaxDataLines == 2

MaxBlocks == 3

ReportA == Report(DateLineOK, CapeCinLineOK, <<Line1OK, Line3OK, DataLineOK>>)

ReportB ==
    Report(Line(<<tOp40, N(19), N(22), tJun, N(2024)>>),
           Line(<<tCAPE, N(0), tCIN, N(0)>>),
           <<Line(<<N(1), tNA, N(72469), tLat, tLon, tNA, N(1200)>>),
             Line(<<N(3), tDEN, N(10), tms>>),
             Line(<<N(4), N(850), N(1500), N(100), tNA, N(270), N(15)>>),
             Line(<<N(5), N(700), tNA, N(-50), N(-90), N(280), N(20)>>)>>)

\* one block of text per kind: two valid reports (one ending in a newline),
\* a valid report after a whitespace-only first line, blocks of fewer than
\* three lines, three lines of garbage, and reports with one bad header line
Blocks ==
    {ReportA,
     ReportB \o <<"\n">>,
     Block(<<tabc>>),
     Block(<<tabc, txx>>),
     Block(<<tabc, txx, tabc>>),
     Report(DateLineOK, CapeCinLineOK, <<Line1OK, Line(<<N(3), tSGU, N(99), tkt>>)>>),
     Report(DateLineOK, Line(<<tCAPE>>), <<Line1OK, Line3OK>>)}

\* the blocks that are put together with every separator
PlainBlocks == {ReportA, ReportB \o <<"\n">>, Block(<<tabc>>)}

Separators ==
    {<<"\n", "\n">>, <<"\n", " ", "\n">>, <<"\n", "\t", "\n", "\n">>,
     <<"\n", "\f", "U+2028", "\n">>}

Texts ==
    {Report(l, CapeCinLineOK, <<Line1OK, Line3OK, DataLineOK>>) : l \in DateLines}
    \cup {Report(DateLineOK, l, <<Line1OK, Line3OK, DataLineOK>>) : l \in CapeCinLines}
    \cup {Report(DateLineOK, CapeCinLineOK, <<l, Line3OK, DataLineOK>>) : l \in Lines1}
    \cup {Report(DateLineOK, CapeCinLineOK, <<Line1OK, l, DataLineOK, Line3OK>>) : l \in Lines3}
    \cup {Report(DateLineOK, CapeCinLineOK, <<Line3OK>> \o d \o <<Line1OK>>) :
            d \in SeqsOf(DataLines, 0, MaxDataLines)}
    \cup {Report(DateLineOK, CapeCinLineOK, b) : b \in Bodies}
    \cup {Join(bs, <<"\n", "\n">>) : bs \in SeqsOf(Blocks, 1, MaxBlocks)}
    \cup {Join(bs, sep) : bs \in SeqsOf(PlainBlocks, 2, MaxBlocks), sep \in Separators}
    \cup {<<>>, <<" ">>, <<"\n">>, <<"\n", "\n">>, <<" ", "\n", " ", "\n", " ">>,
          <<" ", "\n">> \o Report(DateLineOK, CapeCinLineOK, <<Line1OK, Line3OK>>),
          <<"\n">> \o ReportA, ReportA \o <<"\n", "\n">>,
          Block(<<tabc, Line(<<tabc, txx, tabc, txx, tabc>>), tabc>>)}

\* what typeof gives for the values the tests pass: 123, true, undefined,
\* and null and {} (both "object")
NonStringTypes == {"number", "boolean", "undefined", "object"}

Inputs ==
    {[typeof |-> "string", text |-> t] : t \in Texts}
    \cup {[typeof |-> ty, text |-> <<>>] : ty \in NonStringTypes}

(***************************************************************************)
(* parse(rawInput) as a state machine                                      *)
(***************************************************************************)
VARIABLES
    rawInput,       \* the argument: what typeof gives, and the text of a string
    pc,             \* "start", "split", "map", "check", "returned", "thrown"
    rawReports,     \* the blocks the splitter kept
    mapped,         \* rawReports.map(parseReport), as far as it got
    parsedReports,  \* the reports returned
    error           \* the error thrown

vars == <<rawInput, pc, rawReports, mapped, parsedReports, error>>

Init ==
    /\ rawInput \in Inputs
    /\ pc = "start"
    /\ rawReports = <<>>
    /\ mapped = <<>>
    /\ parsedReports = <<>>
    /\ error = NoError

\* an entry point that does not look at the type of its argument
CheckInputUntyped ==
    /\ pc = "start"
    /\ pc' = "split"
    /\ UNCHANGED <<rawInput, rawReports, mapped, parsedReports, error>>

\* if (typeof rawInput !== 'string') throw new TypeError(...)
CheckInput ==
    /\ pc = "start"
    /\ IF rawInput.typeof # "string"
       THEN /\ pc' = "thrown"
            /\ error' = TypeError("Invalid input. Expected a string.")
       ELSE /\ pc' = "split"
            /\ error' = error
    /\ UNCHANGED <<rawInput, rawReports, mapped, parsedReports>>

\* const rawReports = rawInput.split(...).filter(...)
SplitReports ==
    /\ pc = "split"
    /\ rawReports' = splitRawReports(rawInput.text)
    /\ pc' = "map"
    /\ UNCHANGED <<rawInput, mapped, parsedReports, error>>

\* a map that catches the error of a block and goes on to the next
MappedCatching(r) ==
    /\ pc' = pc
    /\ error' = error
    /\ mapped' = Append(mapped, IF r.kind = "throw" THEN NoResult ELSE r)

\* what the result r of one parseReport call does to the map
Mapped(r) ==
    IF r.kind = "throw"
    THEN /\ pc' = "thrown"
         /\ error' = r.error
         /\ mapped' = mapped
    ELSE /\ pc' = pc
         /\ error' = error
         /\ mapped' = Append(mapped, r)

\* one callback of rawReports.map(parseReport): an error it throws ends parse
MapReport ==
    /\ pc = "map"
    /\ Len(mapped) < Len(rawReports)
    /\ Mapped(parseReport(rawReports[Len(mapped) + 1]))
    /\ UNCHANGED <<rawInput, rawReports, parsedReports>>

isReport(r) == r.kind = "report"

reportsOf(results) == [i \in 1..Len(results) |-> results[i].report]

\* .filter((report) => report !== undefined)
FilterReports ==
    /\ pc = "map"
    /\ Len(mapped) = Len(rawReports)
    /\ parsedReports' = reportsOf(SelectSeq(mapped, isReport))
    /\ pc' = "check"
    /\ UNCHANGED <<rawInput, rawReports, mapped, error>>

\* a return that does not check for an empty result
ReturnUnchecked ==
    /\ pc = "check"
    /\ pc' = "returned"
    /\ UNCHANGED <<rawInput, rawReports, mapped, parsedReports, error>>

\* if (parsedReports.length === 0) throw new Error(...); return parsedReports
Return ==
    /\ pc = "check"
    /\ IF Len(parsedReports) = 0
       THEN /\ pc' = "thrown"
            /\ error' = Error("Failed to parse. Ensure the input is a valid GSD formatted string.", <<>>)
       ELSE /\ pc' = "returned"
            /\ error' = error
    /\ UNCHANGED <<rawInput, rawReports, mapped, parsedReports>>

Next ==
    \/ CheckInput
    \/ SplitReports
    \/ MapReport
    \/ FilterReports
    \/ Return

Spec == Init /\ [][Next]_vars

(***************************************************************************)
(* Properties.  What a property expects is computed from the text of the   *)
(* input, by definitions of its own, and compared with what parse did.     *)
(***************************************************************************)
Done == pc \in {"returned", "thrown"}

IsString == rawInput.typeof = "string"

FormatErrorMessage ==
    "Failed to parse. Ensure the input is a valid GSD formatted string."

DateErrorMessage == "Failed to parse date from meta line"

LinesOf(block) == SplitChar(block, "\n")

\* the block has a first, a second and a third line and none is empty
HasHeader(block) ==
    /\ Len(LinesOf(block)) >= 3
    /\ \A i \in 1..3 : LinesOf(block)[i] # <<>>

\* the tokens of the block's date line and of its lines after the header
DateTokens(block) == splitLine(LinesOf(block)[2])

BodyTokens(block) ==
    LET lines == LinesOf(block)
    IN  [i \in 1..(Len(lines) - 3) |-> splitLine(lines[i + 3])]

\* the tokens of the first line of the body whose type code is id, <<>> when
\* the body has none
FirstOfType(block, id) ==
    LET body == BodyTokens(block)
        found == {i \in 1..Len(body) : body[i][1] = id}
    IN  IF found = {} THEN <<>>
        ELSE body[CHOOSE i \in found : \A j \in found : i <= j]

\* the blocks of rawReports that are not discarded, in order
KeptBlocks == SelectSeq(rawReports, HasHeader)

\* token i (0-based) is present and reads as an integer
IsInteger(tokens, i) == HasPart(tokens, i) /\ ~ParseInt(Part(tokens, i)).nan

NumberAt(tokens, i) == ParseInt(Part(tokens, i))

\* token i is present and reads as the integer n
ReadsAs(tokens, i, n) ==
    IsInteger(tokens, i) /\ StrictEquals(NumberAt(tokens, i), FromInt(n))

\* token i reads as an integer from low to high
ReadsWithin(tokens, i, low, high) ==
    /\ IsInteger(tokens, i)
    /\ IsSmallInteger(NumberAt(tokens, i))
    /\ IntOf(NumberAt(tokens, i)) \in low..high

\* the integer token i reads as, where it is one of less than ten digits
IntegerAt(tokens, i) == IntOf(NumberAt(tokens, i))

IsSentinel(tokens, i) == HasPart(tokens, i) /\ Part(tokens, i) = tNA

(***************************************************************************)
(* C1                                                                      *)
(***************************************************************************)
\* the text holds nothing but the letters of the garbage tokens and whitespace
IsGarbage(text) ==
    \A i \in 1..Len(text) : text[i] \in {"a", "b", "c", "x"} \cup WhiteSpace

\* C1 as stated: parse of a string of garbage or blanks, of any number of
\* lines, fails with exactly the format error message
C1_GarbageFormatError ==
    (pc = "thrown" /\ IsString /\ IsGarbage(rawInput.text))
        => (error.message = FormatErrorMessage /\ error.detail = <<>>)

\* the error the decoding of a date line of garbage throws: that of an
\* unrecognized month when the line has a fourth token, that of a missing
\* date when it has none
GarbageDateError(tokens) ==
    IF HasPart(tokens, 3) THEN Error("Invalid month: ", Part(tokens, 3))
    ELSE Error(DateErrorMessage, <<>>)

\* C1 amended: when every block of a string input is discarded (one of its
\* first three lines is missing or empty), as for the empty string, blanks and
\* garbage of one or two lines a block, parse fails with exactly the format
\* error message and returns nothing; and when a block of garbage has its
\* three lines, parse fails with the error of the date line of the first
\* such block
C1_DiscardedFormatError ==
    /\ (Done /\ IsString /\ \A k \in 1..Len(rawReports) : ~HasHeader(rawReports[k]))
        => /\ pc = "thrown"
           /\ error = Error(FormatErrorMessage, <<>>)
           /\ parsedReports = <<>>
    /\ (Done /\ IsString /\ IsGarbage(rawInput.text) /\ KeptBlocks # <<>>)
        => /\ pc = "thrown"
           /\ error = GarbageDateError(DateTokens(KeptBlocks[1]))
           /\ parsedReports = <<>>

C1_Witness ==
    /\ pc = "thrown"
    /\ error = Error(FormatErrorMessage, <<>>)
    /\ Len(rawReports) >= 2
    /\ IsGarbage(rawInput.text)

(***************************************************************************)
(* C2                                                                      *)
(***************************************************************************)
\* the blocks of a text: its maximal groups of consecutive lines that are not
\* blank (a blank line being empty or all whitespace)
BlocksOf(text) ==
    LET lines == LinesOf(text)
        m == Len(lines)
        blank == [k \in 1..m |-> Trim(lines[k]) = <<>>]
        IsFirst(k) == ~blank[k] /\ (k = 1 \/ blank[k - 1])
        IsLast(k) == ~blank[k] /\ (k = m \/ blank[k + 1])
        firsts == SelectSeq([k \in 1..m |-> k], IsFirst)
        lasts == SelectSeq([k \in 1..m |-> k], IsLast)
    IN  [j \in 1..Len(firsts) |->
            JoinChar(SubSeq(lines, firsts[j], lasts[j]), "\n")]

\* what the assembly of each block gives
OutcomesOf(blocks) == [j \in 1..Len(blocks) |-> parseReport(blocks[j])]

AllReports(outcomes) == \A j \in 1..Len(outcomes) : outcomes[j].kind = "report"

\* the text begins with its first block
BeginsWithBlock(text) == text # <<>> /\ text[1] \notin WhiteSpace

\* the text begins with its first block, and every block is a valid report
ValidBlocks(text) ==
    BeginsWithBlock(text) /\ AllReports(OutcomesOf(BlocksOf(text)))

\* when every block is a valid report, parse returns the report of each
OneReportPerBlock(outcomes) ==
    AllReports(outcomes)
        => /\ pc = "returned"
           /\ parsedReports = [j \in 1..Len(outcomes) |-> outcomes[j].report]

\* C2: for an input of N valid blocks separated by blank lines, parse returns
\* N reports, the i-th the one decoded from the i-th block
C2_OneReportPerBlock ==
    (Done /\ IsString /\ BeginsWithBlock(rawInput.text))
        => OneReportPerBlock(OutcomesOf(BlocksOf(rawInput.text)))

C2_Witness ==
    /\ pc = "returned"
    /\ Len(parsedReports) = 3
    /\ parsedReports[1] # parsedReports[2]
    /\ ValidBlocks(rawInput.text)
    /\ \E i \in 1..(Len(rawInput.text) - 2) :
            SubSeq(rawInput.text, i, i + 2) = <<"\n", " ", "\n">>

(***************************************************************************)
(* C3                                                                      *)
(***************************************************************************)
\* a date line with month JAN in any letter case and integer hour, day, year
IsJanuaryLine(tokens) ==
    /\ Len(tokens) >= 5
    /\ ToUpperCase(Part(tokens, 3)) = <<"J", "A", "N">>
    /\ IsInteger(tokens, 1)
    /\ IsInteger(tokens, 2)
    /\ IsInteger(tokens, 4)

\* the ISO-8601 timestamp of January, for a four-digit year, a day of the
\* month and an hour of the day
JanuaryISO(year, day, hour) ==
    PadStart(ToChars(year), 4) \o <<"-", "0", "1", "-">> \o PadStart(ToChars(day), 2)
        \o <<"T">> \o PadStart(ToChars(hour), 2)
        \o <<":", "0", "0", ":", "0", "0", ".", "0", "0", "0", "Z">>

\* C3: a date line with month JAN, hour 1..23, a day of January and a
\* four-digit year decodes, without an error, to that hour of that day of
\* January with token 0 as the type (here for the first block of an input
\* that is one report, valid but for its date line)
C3_JanuaryDecodes ==
    (/\ Done
     /\ Len(rawReports) = 1
     /\ HasHeader(rawReports[1])
     /\ IsJanuaryLine(DateTokens(rawReports[1]))
     /\ ReadsWithin(DateTokens(rawReports[1]), 1, 1, 23)
     /\ ReadsWithin(DateTokens(rawReports[1]), 2, 1, 31)
     /\ ReadsWithin(DateTokens(rawReports[1]), 4, 1000, 9999))
        => /\ pc = "returned"
           /\ parsedReports[1].type = Part(DateTokens(rawReports[1]), 0)
           /\ parsedReports[1].date =
                JanuaryISO(IntegerAt(DateTokens(rawReports[1]), 4),
                           IntegerAt(DateTokens(rawReports[1]), 2),
                           IntegerAt(DateTokens(rawReports[1]), 1))

(***************************************************************************)
(* C4                                                                      *)
(***************************************************************************)
\* the positions of the '-' of a token that are not its first character
InnerDashes(token) == {i \in 2..Len(token) : token[i] = "-"}

\* a latitude with a negative longitude put right after it: digits, with a
\* '-' inside
IsConcatenated(token) ==
    /\ token # <<>>
    /\ IsDigit(token[1])
    /\ InnerDashes(token) # {}

LastDash(token) == CHOOSE i \in InnerDashes(token) : \A j \in InnerDashes(token) : j <= i

\* C4: when token 3 of the station identification line is a latitude with a
\* negative longitude put right after it, the report's lat is what precedes
\* the last '-', its lon what starts at that '-', and elev and rtime are read
\* from the two tokens after it
C4_SplitsConcatenatedLatLon ==
    (/\ pc = "returned"
     /\ Len(rawReports) = 1
     /\ IsConcatenated(Part(FirstOfType(rawReports[1], StationIdentificationId), 3)))
        => LET tokens == FirstOfType(rawReports[1], StationIdentificationId)
               latLon == Part(tokens, 3)
           IN  /\ parsedReports[1].lat = ParseFloat(Take(latLon, LastDash(latLon) - 1))
               /\ parsedReports[1].lon = ParseFloat(Drop(latLon, LastDash(latLon) - 1))
               /\ parsedReports[1].elev = parseIntegerPart(tokens, 4)
               /\ parsedReports[1].rtime = parseIntegerPart(tokens, 5)

(***************************************************************************)
(* C5                                                                      *)
(***************************************************************************)
\* token i reads as an integer other than the sentinel
IsPresent(tokens, i) == IsInteger(tokens, i) /\ ~ReadsAs(tokens, i, 99999)

ValueAt(tokens, i) == IF IsPresent(tokens, i) THEN Some(NumberAt(tokens, i)) ELSE Undefined

\* a line of type 4, 5 or 9 with pressure, height, temp, windDir and windSpd
IsCompleteLevel(tokens) ==
    /\ tokens[1] \in {<<"4">>, <<"5">>, <<"9">>}
    /\ \A i \in {1, 2, 3, 5, 6} : IsPresent(tokens, i)

LevelOf(tokens) ==
    [pressure |-> ValueAt(tokens, 1), height |-> ValueAt(tokens, 2),
     temp |-> ValueAt(tokens, 3), dewpt |-> ValueAt(tokens, 4),
     windDir |-> ValueAt(tokens, 5), windSpd |-> ValueAt(tokens, 6)]

\* the levels of the complete level lines of a block, in line order
LevelsOf(block) ==
    LET complete == SelectSeq(BodyTokens(block), IsCompleteLevel)
    IN  [i \in 1..Len(complete) |-> LevelOf(complete[i])]

\* C5: the data of every returned report is the levels of the complete
\* level lines of its block, in line order, whether or not they have a dewpt;
\* the incomplete lines are left out and raise no error
C5_DataIsCompleteLevels ==
    pc = "returned"
        => /\ Len(parsedReports) = Len(KeptBlocks)
           /\ \A i \in 1..Len(parsedReports) :
                parsedReports[i].data = LevelsOf(KeptBlocks[i])

\* the type code of a line is 4, 5 or 9
IsLevelLine(tokens) == tokens[1] \in {<<"4">>, <<"5">>, <<"9">>}

C5_Witness ==
    /\ pc = "returned"
    /\ \E i \in 1..Len(parsedReports) :
        /\ Len(parsedReports[i].data) = 1
        /\ ~parsedReports[i].data[1].dewpt.ok
        /\ Len(SelectSeq(BodyTokens(KeptBlocks[i]), IsLevelLine)) = 2

(***************************************************************************)
(* C6                                                                      *)
(***************************************************************************)
Is99999(x) == x.ok /\ StrictEquals(x.v, FromInt(99999))

\* the station identification line was not repaired: its token 3 reads as an
\* integer, so nothing was spliced in
IsUnrepaired(tokens) == IsInteger(tokens, 3)

\* the places of the elevation and of the release time among the tokens of
\* the line as written: 5 and 6, and one less on a line that was repaired,
\* whose token 3 became two
ElevIndex(tokens) == IF IsUnrepaired(tokens) THEN 5 ELSE 4

RtimeIndex(tokens) == IF IsUnrepaired(tokens) THEN 6 ELSE 5

\* C6: no returned report or datum holds 99999 in a numeric field, and the
\* token 99999 in the place of wban, wmo, elev, rtime or dewpt gives a field
\* that is absent
C6_SentinelIsAbsent ==
    pc = "returned"
        => \A i \in 1..Len(parsedReports) :
            LET r == parsedReports[i]
                tokens == FirstOfType(KeptBlocks[i], StationIdentificationId)
                levels == SelectSeq(BodyTokens(KeptBlocks[i]), IsCompleteLevel)
            IN  /\ ~Is99999(r.wban) /\ ~Is99999(r.wmo)
                /\ ~Is99999(r.elev) /\ ~Is99999(r.rtime)
                /\ \A j \in 1..Len(r.data) :
                    /\ ~Is99999(r.data[j].pressure) /\ ~Is99999(r.data[j].height)
                    /\ ~Is99999(r.data[j].temp) /\ ~Is99999(r.data[j].dewpt)
                    /\ ~Is99999(r.data[j].windDir) /\ ~Is99999(r.data[j].windSpd)
                /\ IsSentinel(tokens, 1) => ~r.wban.ok
                /\ IsSentinel(tokens, 2) => ~r.wmo.ok
                /\ IsSentinel(tokens, ElevIndex(tokens)) => ~r.elev.ok
                /\ IsSentinel(tokens, RtimeIndex(tokens)) => ~r.rtime.ok
                /\ Len(levels) = Len(r.data)
                /\ \A j \in 1..Len(levels) :
                    IsSentinel(levels[j], 4) => ~r.data[j].dewpt.ok

C6_Witness ==
    /\ pc = "returned"
    /\ \E i \in 1..Len(parsedReports) :
        /\ IsSentinel(FirstOfType(KeptBlocks[i], StationIdentificationId), 1)
        /\ IsSentinel(FirstOfType(KeptBlocks[i], StationIdentificationId), 5)
        /\ ~parsedReports[i].wban.ok
        /\ ~parsedReports[i].elev.ok
        /\ \E j \in 1..Len(parsedReports[i].data) :
            /\ ~parsedReports[i].data[j].dewpt.ok
            /\ IsSentinel(SelectSeq(BodyTokens(KeptBlocks[i]), IsCompleteLevel)[j], 4)

\* the same on a line that was repaired, where the elevation is token 4
C6_WitnessRepaired ==
    /\ pc = "returned"
    /\ \E i \in 1..Len(parsedReports) :
        /\ ~IsUnrepaired(FirstOfType(KeptBlocks[i], StationIdentificationId))
        /\ IsSentinel(FirstOfType(KeptBlocks[i], StationIdentificationId), 4)
        /\ ~parsedReports[i].elev.ok
        /\ parsedReports[i].rtime.ok

(***************************************************************************)
(* C7                                                                      *)
(***************************************************************************)
\* the sonde token of a station identifier line does not read as 10, 11 or
\* 12, or its wind units token is neither kt nor ms (or is absent)
IsOutOfEnumeration(tokens) ==
    \/ ~(\E n \in {10, 11, 12} : ReadsAs(tokens, 2, n))
    \/ ~(HasPart(tokens, 3) /\ Part(tokens, 3) \in {<<"k", "t">>, <<"m", "s">>})

\* the station identifier line of block k is out of enumeration
HasBadIdentifier(k) ==
    /\ HasHeader(rawReports[k])
    /\ FirstOfType(rawReports[k], StationIdentifierId) # <<>>
    /\ IsOutOfEnumeration(FirstOfType(rawReports[k], StationIdentifierId))

\* C7: a block whose station identifier line is out of enumeration makes no
\* report: its assembly throws a descriptive error, which ends parse; and
\* every report returned has a sonde of 10, 11 or 12 and wind units kt or ms
C7_EnumerationsEnforced ==
    /\ Done => \A k \in 1..Len(rawReports) :
                HasBadIdentifier(k)
                    => /\ pc = "thrown"
                       /\ Len(mapped) < k
                       /\ error.name = "Error"
                       /\ error.message \notin {"", FormatErrorMessage}
    /\ \A i \in 1..Len(parsedReports) :
        /\ parsedReports[i].sonde \in {FromInt(10), FromInt(11), FromInt(12)}
        /\ parsedReports[i].windUnits \in {<<"k", "t">>, <<"m", "s">>}

C7_Witness ==
    /\ pc = "thrown"
    /\ error = Error("Unrecognized sonde type: ", <<"9", "9">>)
    /\ Len(mapped) = 1
    /\ HasBadIdentifier(2)

(***************************************************************************)
(* C8                                                                      *)
(***************************************************************************)
\* C8: for an input that is not a string, parse does nothing but throw a
\* TypeError: it never splits or decodes, and has no reports
C8_NonStringTypeError ==
    ~IsString
        => /\ pc \in {"start", "thrown"}
           /\ pc = "thrown" => error.name = "TypeError"
           /\ rawReports = <<>>
           /\ mapped = <<>>
           /\ parsedReports = <<>>

C8_Witness ==
    /\ rawInput.typeof = "object"
    /\ pc = "thrown"
    /\ error = TypeError("Invalid input. Expected a string.")

(***************************************************************************)
(* C9                                                                      *)
(***************************************************************************)
\* the blocks whose assembly throws
MalformedOf(outcomes) == {k \in 1..Len(outcomes) : outcomes[k].kind = "throw"}

\* parse throws the error of block k, a block of three lines or more
ThrowsErrorOf(outcomes, k) ==
    /\ pc = "thrown"
    /\ parsedReports = <<>>
    /\ error = outcomes[k].error
    /\ HasHeader(rawReports[k])
    /\ error.message # FormatErrorMessage

\* the positions in rawReports of the blocks that are not discarded
KeptIndices ==
    LET IsKept(k) == HasHeader(rawReports[k])
    IN  SelectSeq(Indices(rawReports), IsKept)

\* parse returns the reports of the blocks kept
ReturnsReportsOf(outcomes, kept) ==
    /\ parsedReports = [i \in 1..Len(kept) |-> outcomes[kept[i]].report]
    /\ kept # <<>> => pc = "returned"

NoPartialResults(outcomes, malformed) ==
    IF malformed # {}
    THEN ThrowsErrorOf(outcomes, CHOOSE k \in malformed : \A j \in malformed : k <= j)
    ELSE ReturnsReportsOf(outcomes, KeptIndices)

NoPartialResultsOf(outcomes) == NoPartialResults(outcomes, MalformedOf(outcomes))

\* C9: when a block is malformed, parse throws the error of the first
\* malformed block and returns no report, whatever the other blocks are; when
\* none is, the blocks of fewer than three lines are left out and the reports
\* of the others are returned, in order
C9_NoPartialResults ==
    (Done /\ IsString) => NoPartialResultsOf(OutcomesOf(rawReports))

C9_Witness ==
    /\ pc = "thrown"
    /\ Len(rawReports) = 3
    /\ Len(mapped) = 1
    /\ mapped[1].kind = "report"
    /\ parseReport(rawReports[3]).kind = "report"

\* a short block among valid ones is left out and the call returns
C9_WitnessDiscarded ==
    /\ pc = "returned"
    /\ Len(rawReports) = 3
    /\ Len(parsedReports) = 2
    /\ ~HasHeader(rawReports[2])

(***************************************************************************)
(* C10                                                                     *)
(***************************************************************************)
\* token i of a date line is missing or reads as zero
IsMissingOrZero(tokens, i) ==
    \/ ~Truthy(tokens, i)
    \/ ReadsAs(tokens, i, 0)

\* the month token is missing or names January, the month numbered zero
IsMonthMissingOrZero(tokens) ==
    \/ ~Truthy(tokens, 3)
    \/ ToUpperCase(Part(tokens, 3)) = <<"J", "A", "N">>

\* the month token is missing or names a month
IsMonthRecognized(tokens) ==
    \/ ~Truthy(tokens, 3)
    \/ \E i \in 1..12 : ToUpperCase(Part(tokens, 3)) = months[i]

\* the hour, day, month or year of the date line of block k is missing or zero
HasMissingOrZeroDate(k) ==
    /\ HasHeader(rawReports[k])
    /\ \/ IsMissingOrZero(DateTokens(rawReports[k]), 1)
       \/ IsMissingOrZero(DateTokens(rawReports[k]), 2)
       \/ IsMonthMissingOrZero(DateTokens(rawReports[k]))
       \/ IsMissingOrZero(DateTokens(rawReports[k]), 4)

\* the date line of block k is that of a midnight sounding: its hour token
\* reads as zero
IsMidnight(k) ==
    /\ HasHeader(rawReports[k])
    /\ ReadsAs(DateTokens(rawReports[k]), 1, 0)

\* the decoding of block k threw: parse threw an error that is not the
\* format error, and block k made no report
IsRejected(k) ==
    /\ pc = "thrown"
    /\ Len(mapped) < k
    /\ error.name = "Error"
    /\ error.message # FormatErrorMessage

\* C10 as stated: a block whose date line has hour, day, month or year missing
\* or zero makes no report: its decoding throws, which ends parse; and the
\* error thrown at a midnight sounding is 'Failed to parse date from meta
\* line'
C10_MidnightDateError ==
    Done => \A k \in 1..Len(rawReports) :
        /\ HasMissingOrZeroDate(k) => IsRejected(k)
        /\ (IsMidnight(k) /\ Len(mapped) = k - 1)
            => error = Error(DateErrorMessage, <<>>)

\* C10 amended: a block whose date line has hour, day, month or year missing
\* or zero makes no report: its decoding throws, which ends parse; the error
\* thrown at a midnight sounding is 'Failed to parse date from meta line'
\* when its month token is missing or names a month, and 'Invalid month: '
\* with the token when it names none
C10_ZeroIsMissing ==
    Done => \A k \in 1..Len(rawReports) :
        /\ HasMissingOrZeroDate(k) => IsRejected(k)
        /\ (IsMidnight(k) /\ Len(mapped) = k - 1)
            => IF IsMonthRecognized(DateTokens(rawReports[k]))
               THEN error = Error(DateErrorMessage, <<>>)
               ELSE error = Error("Invalid month: ",
                                  Part(DateTokens(rawReports[k]), 3))

\* a midnight sounding, its date line otherwise well formed, is rejected
C10_Witness ==
    /\ pc = "thrown"
    /\ error = Error(DateErrorMessage, <<>>)
    /\ Len(rawReports) = 1
    /\ DateTokens(rawReports[1]) = <<tOp40, N(0), N(22), tJun, N(2024)>>

=============================================================================
